---- MODULE Spec2Model ----
(***************************************************************************)
(* Lease coordinator of the Behalf task manager (Cloudflare Worker, D1     *)
(* Job Store, TaskQueue Durable Object).                                   *)
(*                                                                         *)
(* Two deployments exist in the repository and both are modelled:          *)
(*   Spec        index.ts + handlers/index.ts + do-task-queue.ts           *)
(*               (src/unnamed/part_013, src/worker/handlers/index.ts,      *)
(*                src/unnamed/part_011)                                    *)
(*   SpecSimple  index-full.ts + do-task-queue-simple.ts                   *)
(*               (src/unnamed/part_010, src/unnamed/part_012)              *)
(*                                                                         *)
(* Scheduling.  A Durable Object runs one JavaScript continuation at a     *)
(* time; a handler gives up control at every await of external I/O, which  *)
(* here is every D1 statement (this.env.DB...run()/all()).  Awaits of the  *)
(* object's own storage (saveState) keep the input gate closed and awaits  *)
(* of in-memory async functions (releaseLease) are resolved without        *)
(* another event being delivered, so they are not suspension points.  One  *)
(* action of the model is the code between two suspension points; the D1   *)
(* statement a handler issues before it suspends executes in the same      *)
(* action (statements of one caller reach D1 in issue order).              *)
(*                                                                         *)
(* The column updated_at is written but never read and is left out.        *)
(***************************************************************************)
EXTENDS Integers, Sequences, FiniteSets, Bags, TLC

\* ---- bounds of the model ------------------------------------------------
MaxJobs == 2
MaxCalls == 2
MaxTicks == 2
TickMs == 1000000
MaxLeaseIds == 3
MaxItemsArg == 2
MaxHeartbeats == 2
MaxAttempts == 2
MaxRequests == 4
MaxQueueRetries == 1
MaxPayloadLen == 2
MaxBatch == 2

\* ---- program constants --------------------------------------------------
leaseDurationMs == 30 * 60 * 1000
Null == -1
Undefined == -2

Jobs == 1..MaxJobs
Calls == 1..MaxCalls
Browsers == {"b1", "b2"}
LeaseIds == 1..MaxLeaseIds

VARIABLES
  jobs,           \* D1 table jobs: job_id -> row | NoRow
  leases,         \* TaskQueue.leases: jobId -> TaskLease | NoLease
  browserLeases,  \* TaskQueue.browserLeases: browserId -> set of jobId
  stored,         \* durable storage key 'leases' of the Durable Object
  now,            \* Date.now()
  nextLeaseId,    \* next value generateLeaseId() returns
  calls,          \* requests in flight: the locals of each handler
  reply,          \* the response being sent
  granted,        \* the items of all lease responses sent so far
  callbacks,      \* D1 table callbacks: delivery_id -> row | NoCallback
  queue,          \* CALLBACKS_QUEUE: the bag of messages not yet consumed
  inflight,       \* the locals of processWebhookMessage while it awaits fetch
  requests,       \* the HTTP requests the callback endpoint has received
  nextDeliveryId, \* next value generateDeliveryId() returns
  signing,        \* a signature made by createWebhookSignature and its verification
  env,            \* the bindings of the deployment the webhook consumer reads
  batch,          \* the MessageBatch handleWebhookQueue is working on
  artifacts       \* D1 table artifacts: job_id -> row | NoArtifact

dvars == <<callbacks, queue, inflight, requests, nextDeliveryId>>

vars == <<jobs, leases, browserLeases, stored, now, nextLeaseId, calls, reply,
          granted, dvars, signing, env, batch, artifacts>>

NoRow == [state |-> "absent"]
NoArtifact == [raw_r2_key |-> <<>>]
NoLease == [leaseId |-> Null]

D1Result(n) == [success |-> TRUE, meta |-> [changes |-> n]]

NoCall ==
  [kind |-> "none", pc |-> "idle", browserId |-> "", maxItems |-> 0,
   jobId |-> 0, leaseId |-> 0, expiredJobs |-> <<>>, availableTasks |-> <<>>,
   idx |-> 0, lease |-> NoLease, updateResult |-> D1Result(0),
   leasedTasks |-> <<>>, callback_url |-> Null, callback_secret_id |-> Null,
   r2Key |-> <<>>, contentHash |-> <<>>]

NoReply ==
  [kind |-> "none", status |-> 0, jobId |-> 0, leaseId |-> 0,
   items |-> <<>>, leaseUntil |-> Null, heartbeatCount |-> Null]

Min(a, b) == IF a < b THEN a ELSE b

\* ---- utils/ids ------------------------------------------------------------
getCurrentTimestamp == now
getFutureTimestamp(offsetMs) == now + offsetMs
\* a clock comparison that never reports expiry
isTimestampExpired_never(timestamp) == FALSE

isTimestampExpired(timestamp) == now > timestamp

\* ---- JavaScript property read: a missing property reads as undefined -----
GetProp(obj, key) == IF key \in DOMAIN obj THEN obj[key] ELSE Undefined

\* ---- D1 statements (each executes atomically) ----------------------------
\* INSERT INTO jobs (... state ...) VALUES (..., 'queued', ...)
InsertJob(J, j, b, p, callbackUrl, callbackSecretId) ==
  [J EXCEPT ![j] = [state |-> "queued", browser_id |-> b, priority |-> p,
                    attempts |-> 0, lease_id |-> Null, lease_until |-> Null,
                    callback_url |-> callbackUrl,
                    callback_secret_id |-> callbackSecretId,
                    error_message |-> Null,
                    created_at |-> now]]

\* UPDATE jobs SET state='leased', lease_id=?, lease_until=? WHERE job_id=? AND state='queued'
UpdateQueuedToLeased(J, j, leaseId, leaseUntil) ==
  IF J[j].state = "queued"
  THEN [db |-> [J EXCEPT ![j].state = "leased", ![j].lease_id = leaseId,
                         ![j].lease_until = leaseUntil],
        result |-> D1Result(1)]
  ELSE [db |-> J, result |-> D1Result(0)]

\* UPDATE jobs SET state='queued', lease_id=NULL, lease_until=NULL, attempts=attempts+1 WHERE job_id=?
UpdateRevertToQueued(J, j) ==
  IF J[j] = NoRow THEN J
  ELSE [J EXCEPT ![j].state = "queued", ![j].lease_id = Null,
                 ![j].lease_until = Null, ![j].attempts = @ + 1]

\* a heartbeat that does not write lease_until to the row
UpdateLeaseUntil_skipped(J, j, leaseUntil) == J

\* UPDATE jobs SET lease_until=? WHERE job_id=?
UpdateLeaseUntil(J, j, leaseUntil) ==
  IF J[j] = NoRow THEN J ELSE [J EXCEPT ![j].lease_until = leaseUntil]

\* UPDATE jobs SET state='fetched', lease_id=NULL, lease_until=NULL WHERE job_id=?
UpdateFetched(J, j) ==
  IF J[j] = NoRow THEN J
  ELSE [J EXCEPT ![j].state = "fetched", ![j].lease_id = Null,
                 ![j].lease_until = Null]

\* SELECT ... WHERE job_id=? AND lease_id=? AND state='leased'
SelectLeasedJob(J, j, leaseId) ==
  J[j] # NoRow /\ J[j].state = "leased" /\ J[j].lease_id = leaseId

\* `raw/${jobId}.html`
RawKey(jobId) == <<"raw", jobId>>

\* generateSHA256, taken to be free of collisions: the digest names the content
generateSHA256(content) == <<content>>

\* INSERT OR REPLACE INTO artifacts: job_id is the primary key
InsertArtifact(A, j, r2Key, contentHash) ==
  [A EXCEPT ![j] = [raw_r2_key |-> r2Key, raw_sha256 |-> contentHash]]

\* ORDER BY priority DESC, created_at ASC
OrderedBefore(J, a, b) ==
  \/ J[a].priority > J[b].priority
  \/ J[a].priority = J[b].priority /\ J[a].created_at < J[b].created_at

\* a SELECT of the queued jobs without the condition on browser_id
QueuedJobs_ofAnyBrowser(J, b) ==
  {j \in Jobs : J[j] # NoRow /\ J[j].state = "queued"}

QueuedJobs(J, b) ==
  {j \in Jobs : J[j] # NoRow /\ J[j].browser_id = b /\ J[j].state = "queued"}

\* every order of the set S the ORDER BY clause allows (ties in any order)
OrderedSeqs(J, S) ==
  {s \in [1..Cardinality(S) -> S] :
     /\ \A i, k \in 1..Cardinality(S) : i # k => s[i] # s[k]
     /\ \A i, k \in 1..Cardinality(S) : i < k => ~OrderedBefore(J, s[k], s[i])}

\* a SELECT that returns the newest queued jobs of the browser first, whatever
\* their priority
findAvailableTasks_newestFirst(J, b, maxItems) ==
  {SubSeq(s, 1, Min(maxItems, Len(s))) :
     s \in {q \in [1..Cardinality(QueuedJobs(J, b)) -> QueuedJobs(J, b)] :
              \A i, k \in 1..Len(q) : i < k => q[i] > q[k]}}

\* SELECT job_id ... WHERE browser_id=? AND state='queued' ORDER BY ... LIMIT ?
findAvailableTasks(J, b, maxItems) ==
  {SubSeq(s, 1, Min(maxItems, Len(s))) : s \in OrderedSeqs(J, QueuedJobs(J, b))}

\* ---- TaskQueue (do-task-queue.ts) in-memory index ------------------------
\* this.leases.set(jobId, lease)
SetLease(L, j, lease) == [L EXCEPT ![j] = lease]

\* browserLeases.get(browserId).add(jobId), creating the set when missing
AddBrowserJob(BL, b, j) ==
  [x \in DOMAIN BL \cup {b} |->
     IF x = b THEN (IF b \in DOMAIN BL THEN BL[b] ELSE {}) \cup {j} ELSE BL[x]]

\* a removal that keeps the browser's set when it becomes empty
RemoveBrowserJob_keepsEmptySet(BL, b, j) ==
  IF b \notin DOMAIN BL THEN BL ELSE [BL EXCEPT ![b] = @ \ {j}]

\* releaseLease: the browser-index half
RemoveBrowserJob(BL, b, j) ==
  IF b \notin DOMAIN BL THEN BL
  ELSE IF BL[b] \ {j} = {}
       THEN [x \in DOMAIN BL \ {b} |-> BL[x]]
       ELSE [BL EXCEPT ![b] = @ \ {j}]

\* a releaseLease that leaves the maps as they are
releaseLease_keeps(L, BL, j) == [leases |-> L, browserLeases |-> BL]

\* releaseLease(jobId): [leases, browserLeases] afterwards
releaseLease(L, BL, j) ==
  IF L[j] = NoLease THEN [leases |-> L, browserLeases |-> BL]
  ELSE [leases |-> [L EXCEPT ![j] = NoLease],
        browserLeases |-> RemoveBrowserJob(BL, L[j].browserId, j)]

\* a lease test that omits the leaseId comparison
InvalidLease_anyId(lease, leaseId) == lease = NoLease

\* handleHeartbeat: !lease || lease.leaseId !== leaseId
InvalidLease(lease, leaseId) == lease = NoLease \/ lease.leaseId # leaseId

\* an extension that sets the deadline to the current time
ExtendLease_toNow(lease) ==
  [lease EXCEPT !.leaseUntil = getCurrentTimestamp,
                !.heartbeatCount = @ + 1]

\* handleHeartbeat: lease.leaseUntil = getFutureTimestamp(30 min); lease.heartbeatCount++
ExtendLease(lease) ==
  [lease EXCEPT !.leaseUntil = getFutureTimestamp(leaseDurationMs),
                !.heartbeatCount = @ + 1]

\* the test of createLease on the result of the conditional update
UpdateFailed(updateResult) ==
  ~updateResult.success \/ GetProp(updateResult, "changes") = 0

\* a sweep that collects every lease, expired or not
ExpiredJobs_all(L) == {j \in Jobs : L[j] # NoLease}

\* jobs whose lease cleanupExpiredLeases finds expired
ExpiredJobs(L) == {j \in Jobs : L[j] # NoLease /\ isTimestampExpired(L[j].leaseUntil)}

\* every iteration order of a set (Map iteration order depends on history)
Orders(S) ==
  {s \in [1..Cardinality(S) -> S] :
     \A i, k \in 1..Cardinality(S) : i # k => s[i] # s[k]}

\* a request takes the first slot that is not in use
Free(c) ==
  /\ calls[c].pc = "idle"
  /\ \A d \in Calls : d < c => calls[d].pc # "idle"

\* createSuccessResponse / createErrorResponse: the response of a request
Respond(kind, status, jobId, leaseId, items, lease) ==
  [kind |-> kind, status |-> status, jobId |-> jobId, leaseId |-> leaseId,
   items |-> items,
   leaseUntil |-> IF lease = NoLease THEN Null ELSE lease.leaseUntil,
   heartbeatCount |-> IF lease = NoLease THEN Null ELSE lease.heartbeatCount]

\* ---- webhook signatures (utils/http.ts) -------------------------------------
\* the longest encoding of a payload or a secret
MaxBytes == 2 * MaxPayloadLen

\* A string is the sequence of its code points, a byte array the sequence of
\* its bytes.

\* 'sha256='
SignaturePrefix == <<115, 104, 97, 50, 53, 54, 61>>

RECURSIVE Flatten(_)
Flatten(ss) == IF ss = <<>> THEN <<>> ELSE Head(ss) \o Flatten(Tail(ss))

\* new TextEncoder().encode(str): UTF-8, for code points below 2048
EncodeCodePoint(cp) ==
  IF cp < 128 THEN <<cp>> ELSE <<192 + (cp \div 64), 128 + (cp % 64)>>

TextEncode(str) == Flatten([i \in 1..Len(str) |-> EncodeCodePoint(str[i])])

\* the digit of n in base 16, lower case
HexDigit(n) == IF n < 10 THEN 48 + n ELSE 87 + n

\* b.toString(16).padStart(2, '0')
ByteToHex(b) ==
  LET digits == IF b < 16 THEN <<HexDigit(b)>>
                ELSE <<HexDigit(b \div 16), HexDigit(b % 16)>>
  IN IF Len(digits) < 2 THEN <<48>> \o digits ELSE digits

\* hashArray.map(...).join('')
HexOf(bytes) == Flatten([i \in 1..Len(bytes) |-> ByteToHex(bytes[i])])

\* crypto.subtle.sign('HMAC', key, message): a tag of fixed length that is
\* different for different (key, message); the tag is the framed key
\* followed by the framed message
Frame(bytes) ==
  <<Len(bytes)>> \o bytes \o [i \in 1..(MaxBytes - Len(bytes)) |-> 0]

HmacSha256(keyData, messageData) == Frame(keyData) \o Frame(messageData)

createWebhookSignature(payload, secret) ==
  SignaturePrefix \o HexOf(HmacSha256(TextEncode(secret), TextEncode(payload)))

\* signature.startsWith('sha256=')
StartsWith(str, prefix) ==
  Len(str) >= Len(prefix) /\ SubSeq(str, 1, Len(prefix)) = prefix

RECURSIVE BitXor(_, _)
BitXor(a, b) ==
  IF a = 0 /\ b = 0 THEN 0
  ELSE (((a % 2) + (b % 2)) % 2) + 2 * BitXor(a \div 2, b \div 2)

RECURSIVE BitOr(_, _)
BitOr(a, b) ==
  IF a = 0 /\ b = 0 THEN 0
  ELSE (IF (a % 2) = 1 \/ (b % 2) = 1 THEN 1 ELSE 0) + 2 * BitOr(a \div 2, b \div 2)

\* the loop result |= expectedBytes[i] ^ actualBytes[i], from index i on
RECURSIVE XorAll(_, _, _, _)
XorAll(expectedBytes, actualBytes, i, result) ==
  IF i > Len(expectedBytes) THEN result
  ELSE XorAll(expectedBytes, actualBytes, i + 1,
              BitOr(result, BitXor(expectedBytes[i], actualBytes[i])))

\* a comparison that looks at the lengths only
TimingSafeEqual_lengthOnly(expectedBytes, actualBytes) ==
  Len(expectedBytes) = Len(actualBytes)

\* the comparison of verifyWebhookSignature
TimingSafeEqual(expectedBytes, actualBytes) ==
  IF Len(expectedBytes) # Len(actualBytes) THEN FALSE
  ELSE XorAll(expectedBytes, actualBytes, 1, 0) = 0

verifyWebhookSignature(payload, signature, secret) ==
  IF ~StartsWith(signature, SignaturePrefix) THEN FALSE
  ELSE TimingSafeEqual(TextEncode(createWebhookSignature(payload, secret)),
                       TextEncode(signature))

NoSigning == [signature |-> Null]

\* ---- the webhook consumer (handlers/parse-consumer.ts) --------------------
maxRetries == 3
DeliveryIds == 1..MaxRequests
NoCallback == [job_id |-> Null]
NoAttempt == [deliveryId |-> Null]

\* the body of a message of CALLBACKS_QUEUE (callback_url and
\* callback_secret_id are those of the job row)
WebhookMessage(jobId, phase, secretId) ==
  [job_id |-> jobId, phase |-> phase, callback_secret_id |-> secretId]

\* env.CALLBACKS_QUEUE.send(body, { delaySeconds }): the message becomes
\* visible to the consumer delaySeconds later
QueueSend(Q, body, delaySeconds) ==
  Q (+) SetToBag({[body |-> body, delaySeconds |-> delaySeconds,
                   notBefore |-> now + delaySeconds * 1000, retries |-> 0]})

\* message.ack(): the message taken from the queue is gone
MessageAck(Q, m) == Q

\* message.retry(): the queue delivers the message again, as many times as
\* its configuration allows
MessageRetry(Q, m) ==
  IF m.retries < MaxQueueRetries
  THEN Q (+) SetToBag({[m EXCEPT !.retries = @ + 1, !.delaySeconds = 0,
                                 !.notBefore = now]})
  ELSE Q

\* INSERT OR REPLACE INTO callbacks (delivery_id, job_id, phase, url, attempts, ...)
recordDeliveryAttempt(C, deliveryId, jobId, phase, attempts) ==
  [C EXCEPT ![deliveryId] =
     [job_id |-> jobId, phase |-> phase, attempts |-> attempts,
      status_code |-> Null, last_error |-> Null, delivered_at |-> Null]]

\* UPDATE callbacks SET <the fields that are not undefined> WHERE delivery_id = ?
updateDeliveryRecord(C, deliveryId, statusCode, deliveredAt, lastError, attempts) ==
  IF C[deliveryId] = NoCallback THEN C
  ELSE [C EXCEPT ![deliveryId] =
          [@ EXCEPT !.status_code = IF statusCode # Undefined THEN statusCode ELSE @,
                    !.delivered_at = IF deliveredAt # Undefined THEN deliveredAt ELSE @,
                    !.last_error = IF lastError # Undefined THEN lastError ELSE @,
                    !.attempts = IF attempts # Undefined THEN attempts ELSE @]]

\* UPDATE callbacks SET attempts = attempts + 1 WHERE delivery_id = ?
\* RETURNING attempts: [db, attempts], attempts being result?.attempts || 1
incrementDeliveryAttempts(C, deliveryId) ==
  IF C[deliveryId] = NoCallback THEN [db |-> C, attempts |-> 1]
  ELSE [db |-> [C EXCEPT ![deliveryId].attempts = @ + 1],
        attempts |-> IF C[deliveryId].attempts + 1 = 0 THEN 1
                     ELSE C[deliveryId].attempts + 1]

\* SELECT attempts FROM callbacks WHERE delivery_id = ?: result?.attempts || 0
getDeliveryAttempts(C, deliveryId) ==
  IF C[deliveryId] = NoCallback THEN 0 ELSE C[deliveryId].attempts

\* Math.pow(2, attempts) * 60
BackoffSeconds(attempts) == (2 ^ attempts) * 60

\* UPDATE jobs SET state = 'delivered' WHERE job_id = ?
UpdateDelivered(J, j) ==
  IF J[j] = NoRow THEN J ELSE [J EXCEPT ![j].state = "delivered"]

\* UPDATE jobs SET state = 'failed', error_message = ? WHERE job_id = ?
\* (`Webhook delivery failed: ${message}`, named by message)
UpdateJobFailed(J, j, message) ==
  IF J[j] = NoRow THEN J
  ELSE [J EXCEPT ![j].state = "failed",
                 ![j].error_message = message]

\* response.ok
ResponseOk(status) == status >= 200 /\ status <= 299

\* what the callback endpoint does with a request: it answers 200 or 500,
\* or the fetch fails (timeout after 30 s, network error): status 0
Outcomes == {200, 500, 0}

\* the message of the error thrown for an outcome that is not ok, named by
\* the outcome: `HTTP ${status}: ${statusText}`, or that of the failed fetch
ErrorMessage(status) == status

\* the callbackUrl of a create request that names one
CallbackUrl == 1

\* the callbackSecretId of a create request: 'test-secret', or one that
\* getWebhookSecret does not know
TestSecretId == 1
OtherSecretId == 2

\* no secret: null, undefined or the empty string, all of them falsy
NoSecret == <<>>

\* testSecrets[secretId]: the key of 'test-secret', named by one letter
testSecrets(secretId) == IF secretId = TestSecretId THEN <<116>> ELSE NoSecret

\* testSecrets[secretId] || env.WEBHOOK_SECRET_KEY || null
getWebhookSecret(secretId, e) ==
  IF testSecrets(secretId) # NoSecret THEN testSecrets(secretId)
  ELSE e.WEBHOOK_SECRET_KEY

\* JSON.stringify(buildWebhookPayload(job, phase)), named by the digit of
\* the job_id and the first letter of the phase
PayloadJson(jobId, phase) == <<48 + jobId, IF phase = "ingested" THEN 105 ELSE 112>>

\* the X-Signature header of a request: none, or the signature
NoHeader == <<>>

SignatureHeader(payloadJson, secretId, e) ==
  IF secretId # Null
  THEN LET secret == getWebhookSecret(secretId, e)
       IN IF secret # NoSecret THEN createWebhookSignature(payloadJson, secret)
          ELSE NoHeader
  ELSE NoHeader

\* a batch: its messages, the index of the message the loop of
\* handleWebhookQueue is at, and the (index, ack | retry) settled so far
NoBatch == [messages |-> <<>>, idx |-> 1, settled |-> <<>>]

\* message.ack() or message.retry() on message idx, and the loop goes on
Settle(b, how) ==
  [b EXCEPT !.settled = Append(@, [index |-> b.idx, how |-> how]),
            !.idx = @ + 1]

\* an error that leaves handleWebhookQueue: the loop is over
SettleFailed_escapes(b) == [b EXCEPT !.idx = Len(b.messages) + 1]

\* the catch of handleWebhookQueue: message.retry()
SettleFailed(b) == Settle(b, "retry")

\* the state after deployment with the bindings e
Boot(e) ==
  /\ env = e
  /\ jobs = [j \in Jobs |-> NoRow]
  /\ leases = [j \in Jobs |-> NoLease]
  /\ browserLeases = <<>>
  /\ stored = [j \in Jobs |-> NoLease]
  /\ now = 0
  /\ nextLeaseId = 1
  /\ calls = [c \in Calls |-> NoCall]
  /\ reply = NoReply
  /\ granted = {}
  /\ callbacks = [d \in DeliveryIds |-> NoCallback]
  /\ queue = EmptyBag
  /\ inflight = NoAttempt
  /\ requests = <<>>
  /\ nextDeliveryId = 1
  /\ artifacts = [j \in Jobs |-> NoArtifact]
  /\ signing = NoSigning
  /\ batch = NoBatch

\* a deployment that sets no WEBHOOK_SECRET_KEY
Init == Boot([WEBHOOK_SECRET_KEY |-> NoSecret])

\* time passes
Tick ==
  /\ now < MaxTicks * TickMs
  /\ now' = now + TickMs
  /\ UNCHANGED <<jobs, leases, browserLeases, stored, nextLeaseId, calls, reply>>

\* handlers/index.ts handleCreateTask: one INSERT; callbackUrl is
\* body.callbackUrl || null
\* and callbackSecretId is body.callbackSecretId || null
handleCreateTaskSigned(j, b, p, callbackUrl, callbackSecretId) ==
  /\ jobs[j] = NoRow
  /\ \A i \in Jobs : i < j => jobs[i] # NoRow
  /\ jobs' = InsertJob(jobs, j, b, p, callbackUrl, callbackSecretId)
  /\ UNCHANGED <<leases, browserLeases, stored, now, nextLeaseId, calls, reply>>

\* a request without callbackSecretId
handleCreateTaskWith(j, b, p, callbackUrl) ==
  handleCreateTaskSigned(j, b, p, callbackUrl, Null)

\* a request without callbackUrl
handleCreateTask(j, b, p) == handleCreateTaskWith(j, b, p, Null)

\* ---- TaskQueue.handleLease (do-task-queue.ts), reached through ------------
\* ---- handlers/index.ts handleLease, which only forwards ------------------

\* entry of handleLease up to its first await of D1: cleanupExpiredLeases
\* collects the expired leases and issues the first revert, or there is
\* none and findAvailableTasks issues its SELECT
handleLease(c, b, k) ==
  /\ Free(c)
  /\ \E exp \in Orders(ExpiredJobs(leases)) :
       LET cr == [NoCall EXCEPT !.kind = "lease", !.browserId = b,
                                !.maxItems = k, !.expiredJobs = exp]
       IN IF exp # <<>>
          THEN /\ jobs' = UpdateRevertToQueued(jobs, exp[1])
               /\ calls' = [calls EXCEPT ![c] =
                              [cr EXCEPT !.pc = "cleanupExpiredLeases", !.idx = 1]]
          ELSE /\ jobs' = jobs
               /\ \E tasks \in findAvailableTasks(jobs, b, k) :
                    calls' = [calls EXCEPT ![c] =
                                [cr EXCEPT !.pc = "findAvailableTasks",
                                           !.maxItems = 0,
                                           !.availableTasks = tasks]]
  /\ UNCHANGED <<leases, browserLeases, stored, now, nextLeaseId, reply>>

\* cleanupExpiredLeases after the awaited revert of expiredJobs[idx]:
\* releaseLease, then the next revert or the SELECT of findAvailableTasks
cleanupExpiredLeases(c) ==
  /\ calls[c].pc = "cleanupExpiredLeases"
  /\ LET cr == calls[c]
         rel == releaseLease(leases, browserLeases, cr.expiredJobs[cr.idx])
     IN /\ leases' = rel.leases
        /\ browserLeases' = rel.browserLeases
        /\ IF cr.idx < Len(cr.expiredJobs)
           THEN /\ jobs' = UpdateRevertToQueued(jobs, cr.expiredJobs[cr.idx + 1])
                /\ calls' = [calls EXCEPT ![c].idx = cr.idx + 1]
           ELSE /\ jobs' = jobs
                /\ \E tasks \in findAvailableTasks(jobs, cr.browserId, cr.maxItems) :
                     calls' = [calls EXCEPT ![c] =
                                 [cr EXCEPT !.pc = "findAvailableTasks", !.idx = 0,
                                            !.expiredJobs = <<>>, !.maxItems = 0,
                                            !.availableTasks = tasks]]
  /\ UNCHANGED <<stored, now, nextLeaseId, reply>>

\* the candidate loop of handleLease from candidate i on, the index being
\* L, BL and the granted items lt: createLease issues its conditional
\* update for candidate i, or the loop is over and saveState runs
LeaseLoop(c, i, L, BL, lt) ==
  LET cr == calls[c]
  IN IF i <= Len(cr.availableTasks)
     THEN LET jobId == cr.availableTasks[i]
              leaseId == nextLeaseId
              leaseUntil == getFutureTimestamp(leaseDurationMs)
              upd == UpdateQueuedToLeased(jobs, jobId, leaseId, leaseUntil)
          IN /\ nextLeaseId <= MaxLeaseIds
             /\ nextLeaseId' = nextLeaseId + 1
             /\ jobs' = upd.db
             /\ leases' = L
             /\ browserLeases' = BL
             /\ stored' = stored
             /\ reply' = reply
             /\ calls' = [calls EXCEPT ![c] =
                  [cr EXCEPT !.pc = "createLease", !.idx = i,
                             !.lease = [jobId |-> jobId, leaseId |-> leaseId,
                                        browserId |-> cr.browserId,
                                        leaseUntil |-> leaseUntil,
                                        heartbeatCount |-> 0,
                                        createdAt |-> getCurrentTimestamp],
                             !.updateResult = upd.result,
                             !.leasedTasks = lt]]
     ELSE /\ leases' = L
          /\ browserLeases' = BL
          /\ stored' = L
          /\ calls' = [calls EXCEPT ![c] = NoCall]
          /\ reply' = Respond("lease", 200, 0, 0, lt, NoLease)
          /\ UNCHANGED <<jobs, nextLeaseId>>

\* handleLease after the awaited SELECT
handleLease_loop(c) ==
  /\ calls[c].pc = "findAvailableTasks"
  /\ LeaseLoop(c, 1, leases, browserLeases, <<>>)
  /\ UNCHANGED now

\* createLease after its awaited conditional update
createLease(c) ==
  /\ calls[c].pc = "createLease"
  /\ LET cr == calls[c]
         lease == cr.lease
     IN IF UpdateFailed(cr.updateResult)
        THEN LeaseLoop(c, cr.idx + 1, leases, browserLeases, cr.leasedTasks)
        ELSE LeaseLoop(c, cr.idx + 1,
                       SetLease(leases, lease.jobId, lease),
                       AddBrowserJob(browserLeases, lease.browserId, lease.jobId),
                       Append(cr.leasedTasks,
                              [jobId |-> lease.jobId, leaseId |-> lease.leaseId,
                               leaseUntil |-> lease.leaseUntil]))
  /\ UNCHANGED now

\* ---- TaskQueue.handleHeartbeat (do-task-queue.ts) ------------------------
\* entry of handleHeartbeat up to its await of the D1 update
handleHeartbeat(c, jobId, leaseId) ==
  /\ Free(c)
  /\ LET cr == [NoCall EXCEPT !.kind = "heartbeat", !.jobId = jobId,
                              !.leaseId = leaseId]
         lease == leases[jobId]
     IN IF InvalidLease(lease, leaseId)
        THEN /\ reply' = Respond("heartbeat", 400, jobId, leaseId, <<>>, NoLease)
             /\ UNCHANGED <<jobs, leases, browserLeases, calls>>
        ELSE IF isTimestampExpired(lease.leaseUntil)
        THEN LET rel == releaseLease(leases, browserLeases, jobId)
             IN /\ leases' = rel.leases
                /\ browserLeases' = rel.browserLeases
                /\ reply' = Respond("heartbeat", 410, jobId, leaseId, <<>>, NoLease)
                /\ UNCHANGED <<jobs, calls>>
        ELSE LET ext == ExtendLease(lease)
             IN /\ lease.heartbeatCount < MaxHeartbeats
                /\ leases' = [leases EXCEPT ![jobId] = ext]
                /\ jobs' = UpdateLeaseUntil(jobs, jobId, ext.leaseUntil)
                /\ calls' = [x \in Calls |->
                     IF x = c THEN [cr EXCEPT !.pc = "heartbeat", !.lease = ext]
                     ELSE IF calls[x].pc = "heartbeat" /\ calls[x].lease.leaseId = leaseId
                          THEN [calls[x] EXCEPT !.lease = ext]
                          ELSE calls[x]]
                /\ UNCHANGED <<browserLeases, reply>>
  /\ UNCHANGED <<stored, now, nextLeaseId>>

\* handleHeartbeat after the awaited D1 update: saveState and the response
handleHeartbeat_saveState(c) ==
  /\ calls[c].pc = "heartbeat"
  /\ stored' = leases
  /\ calls' = [calls EXCEPT ![c] = NoCall]
  /\ reply' = Respond("heartbeat", 200, calls[c].jobId, calls[c].leaseId, <<>>,
                      calls[c].lease)
  /\ UNCHANGED <<jobs, leases, browserLeases, now, nextLeaseId>>

\* ---- handlers/index.ts handleSubmit --------------------------------------
\* the lease validation SELECT, and the content of a request with htmlBase64
\* (the page 1) put in R2
handleSubmit(c, jobId, leaseId) ==
  /\ Free(c)
  /\ LET cr == [NoCall EXCEPT !.kind = "submit", !.jobId = jobId,
                              !.leaseId = leaseId]
     IN IF SelectLeasedJob(jobs, jobId, leaseId)
        THEN /\ calls' = [calls EXCEPT ![c] =
                          [cr EXCEPT !.pc = "submit",
                                     !.r2Key = RawKey(jobId),
                                     !.contentHash = generateSHA256(1),
                                     !.callback_url = jobs[jobId].callback_url,
                                     !.callback_secret_id =
                                        jobs[jobId].callback_secret_id]]
             /\ reply' = reply
        ELSE /\ reply' = Respond("submit", 400, jobId, leaseId, <<>>, NoLease)
             /\ calls' = calls
  /\ UNCHANGED <<jobs, leases, browserLeases, stored, now, nextLeaseId>>

\* the batch that updates the job after the content is stored, and the
\* message sent to CALLBACKS_QUEUE when the row read by the validation
\* SELECT has a callback_url
handleSubmit_batch(c) ==
  /\ calls[c].pc = "submit"
  /\ jobs' = UpdateFetched(jobs, calls[c].jobId)
  /\ artifacts' = InsertArtifact(artifacts, calls[c].jobId, calls[c].r2Key,
                                 calls[c].contentHash)
  /\ queue' = IF calls[c].callback_url # Null
              THEN QueueSend(queue, WebhookMessage(calls[c].jobId, "ingested",
                                                   calls[c].callback_secret_id), 0)
              ELSE queue
  /\ UNCHANGED <<callbacks, inflight, requests, nextDeliveryId>>
  /\ calls' = [calls EXCEPT ![c] = NoCall]
  /\ reply' = Respond("submit", 200, calls[c].jobId, calls[c].leaseId, <<>>, NoLease)
  /\ UNCHANGED <<leases, browserLeases, stored, now, nextLeaseId>>

\* the jobId of a request: a job that exists, or one that does not
RequestJobs == {j \in Jobs : j = 1 \/ jobs[j - 1] # NoRow}

\* the leaseId of a request: one that was issued, or one that never was
RequestLeaseIds == {l \in LeaseIds : l <= nextLeaseId}

\* the response leaves before the next event is handled
Deliver ==
  /\ reply # NoReply
  /\ reply' = NoReply
  /\ granted' = granted \cup {reply.items[i] : i \in 1..Len(reply.items)}
  /\ UNCHANGED <<jobs, leases, browserLeases, stored, now, nextLeaseId, calls>>
  /\ UNCHANGED <<dvars, signing, env, batch, artifacts>>

\* no response is being sent
Still == reply = NoReply /\ UNCHANGED <<granted, signing, env>>

\* no response is being sent and the step is one of handleSubmit that writes
\* to artifacts
Storing == Still /\ UNCHANGED batch

\* no response is being sent and the step does not write to artifacts
Calm == Still /\ UNCHANGED artifacts

\* no response is being sent and the step is none of a batch of several
\* messages
Idle == Calm /\ UNCHANGED batch

\* no response is being sent and the step is none of the webhook consumer
Quiet == Idle /\ UNCHANGED dvars

Next ==
  \/ Deliver
  \/ Quiet /\ Tick
  \/ Quiet /\ handleCreateTask(1, "b1", 0)
  \/ Quiet /\ \E c \in Calls, k \in 1..MaxItemsArg : handleLease(c, "b1", k)
  \/ Quiet /\ \E c \in Calls : cleanupExpiredLeases(c)
  \/ Quiet /\ \E c \in Calls : handleLease_loop(c)
  \/ Quiet /\ \E c \in Calls : createLease(c)
  \/ Quiet /\ \E c \in Calls, j \in RequestJobs, l \in RequestLeaseIds : handleHeartbeat(c, j, l)
  \/ Quiet /\ \E c \in Calls : handleHeartbeat_saveState(c)
  \/ Quiet /\ \E c \in Calls, j \in RequestJobs, l \in RequestLeaseIds : handleSubmit(c, j, l)
  \/ Storing /\ UNCHANGED dvars /\ \E c \in Calls : handleSubmit_batch(c)

Spec == Init /\ [][Next]_vars

TypeOK ==
  /\ now \in 0..(MaxTicks * TickMs)
  /\ nextLeaseId \in 1..(MaxLeaseIds + 1)

\* ==== the second deployment: index-full.ts and do-task-queue-simple.ts =====
\* The handlers of do-task-queue-simple.ts await nothing but saveState, so
\* each runs as one event of the Durable Object.  The worker handlers of
\* index-full.ts run outside the object and suspend at every call of the
\* object and at every D1 statement.

\* TaskQueue.handleLease (simple): [ok, leases, browserLeases, lease]
simple_handleLease(L, BL, browserId, jobId, leaseId) ==
  LET held == L[jobId] # NoLease
      live == held /\ ~(getCurrentTimestamp > L[jobId].leaseUntil)
      rel == IF held THEN releaseLease(L, BL, jobId)
                     ELSE [leases |-> L, browserLeases |-> BL]
      lease == [jobId |-> jobId, leaseId |-> leaseId, browserId |-> browserId,
                leaseUntil |-> getFutureTimestamp(leaseDurationMs),
                heartbeatCount |-> 0, createdAt |-> getCurrentTimestamp]
  IN IF live
     THEN [ok |-> FALSE, leases |-> L, browserLeases |-> BL, lease |-> L[jobId]]
     ELSE [ok |-> TRUE, leases |-> SetLease(rel.leases, jobId, lease),
           browserLeases |-> AddBrowserJob(rel.browserLeases, browserId, jobId),
           lease |-> lease]

\* index-full.ts handleLease: the SELECT of the candidates
full_handleLease(c, b, k) ==
  /\ Free(c)
  /\ \E tasks \in findAvailableTasks(jobs, b, k) :
       IF tasks = <<>>
       THEN /\ reply' = Respond("lease", 200, 0, 0, <<>>, NoLease)
            /\ calls' = calls
       ELSE /\ reply' = reply
            /\ calls' = [calls EXCEPT ![c] =
                 [NoCall EXCEPT !.kind = "lease", !.browserId = b,
                                !.availableTasks = tasks, !.idx = 1,
                                !.pc = "taskQueue.fetch"]]
  /\ UNCHANGED <<jobs, leases, browserLeases, stored, now, nextLeaseId>>

\* the loop of index-full.ts handleLease moves to candidate i or responds
FullLeaseLoop(c, i, lt) ==
  IF i <= Len(calls[c].availableTasks)
  THEN /\ calls' = [calls EXCEPT ![c] =
                      [calls[c] EXCEPT !.pc = "taskQueue.fetch", !.idx = i,
                                       !.lease = NoLease, !.leasedTasks = lt]]
       /\ reply' = reply
  ELSE /\ calls' = [calls EXCEPT ![c] = NoCall]
       /\ reply' = Respond("lease", 200, 0, 0, lt, NoLease)

\* the object handles the /lease request for candidate idx
full_handleLease_fetch(c) ==
  /\ calls[c].pc = "taskQueue.fetch"
  /\ calls[c].kind = "lease"
  /\ LET cr == calls[c]
         r == simple_handleLease(leases, browserLeases, cr.browserId,
                                 cr.availableTasks[cr.idx], nextLeaseId)
     IN /\ r.ok => nextLeaseId <= MaxLeaseIds
        /\ nextLeaseId' = IF r.ok THEN nextLeaseId + 1 ELSE nextLeaseId
        /\ leases' = r.leases
        /\ browserLeases' = r.browserLeases
        /\ stored' = IF r.ok THEN r.leases ELSE stored
        /\ IF r.ok
           THEN /\ calls' = [calls EXCEPT ![c] =
                               [cr EXCEPT !.pc = "updateStmt", !.lease = r.lease]]
                /\ reply' = reply
           ELSE FullLeaseLoop(c, cr.idx + 1, cr.leasedTasks)
  /\ UNCHANGED <<jobs, now>>

\* the worker mirrors the lease into D1 and takes the item
full_handleLease_update(c) ==
  /\ calls[c].pc = "updateStmt"
  /\ LET cr == calls[c]
         lease == cr.lease
     IN /\ jobs' = UpdateQueuedToLeased(jobs, lease.jobId, lease.leaseId,
                                        lease.leaseUntil).db
        /\ FullLeaseLoop(c, cr.idx + 1,
                         Append(cr.leasedTasks,
                                [jobId |-> lease.jobId, leaseId |-> lease.leaseId,
                                 leaseUntil |-> lease.leaseUntil]))
  /\ UNCHANGED <<leases, browserLeases, stored, now, nextLeaseId>>

\* index-full.ts handleHeartbeat: the object handles /heartbeat
\* (TaskQueue.handleHeartbeat of do-task-queue-simple.ts)
full_handleHeartbeat(c, jobId, leaseId) ==
  /\ Free(c)
  /\ LET lease == leases[jobId]
     IN IF InvalidLease(lease, leaseId)
        THEN /\ reply' = Respond("heartbeat", 400, jobId, leaseId, <<>>, NoLease)
             /\ UNCHANGED <<leases, browserLeases, stored, calls>>
        ELSE IF getCurrentTimestamp > lease.leaseUntil
        THEN LET rel == releaseLease(leases, browserLeases, jobId)
             IN /\ leases' = rel.leases
                /\ browserLeases' = rel.browserLeases
                /\ reply' = Respond("heartbeat", 410, jobId, leaseId, <<>>, NoLease)
                /\ UNCHANGED <<stored, calls>>
        ELSE LET ext == ExtendLease(lease)
             IN /\ lease.heartbeatCount < MaxHeartbeats
                /\ leases' = [leases EXCEPT ![jobId] = ext]
                /\ stored' = leases'
                /\ calls' = [calls EXCEPT ![c] =
                     [NoCall EXCEPT !.kind = "heartbeat", !.jobId = jobId,
                                    !.leaseId = leaseId, !.lease = ext,
                                    !.pc = "heartbeat.update"]]
                /\ UNCHANGED <<browserLeases, reply>>
  /\ UNCHANGED <<jobs, now, nextLeaseId>>

\* UPDATE jobs SET lease_until=? WHERE job_id=? AND lease_id=?
UpdateLeaseUntilOfLease(J, j, leaseId, leaseUntil) ==
  IF J[j] # NoRow /\ J[j].lease_id = leaseId
  THEN [J EXCEPT ![j].lease_until = leaseUntil]
  ELSE J

\* index-full.ts handleHeartbeat: the mirror into D1 and the response
full_handleHeartbeat_update(c) ==
  /\ calls[c].pc = "heartbeat.update"
  /\ LET cr == calls[c]
     IN /\ jobs' = UpdateLeaseUntilOfLease(jobs, cr.jobId, cr.leaseId,
                                           cr.lease.leaseUntil)
        /\ reply' = Respond("heartbeat", 200, cr.jobId, cr.leaseId, <<>>, cr.lease)
  /\ calls' = [calls EXCEPT ![c] = NoCall]
  /\ UNCHANGED <<leases, browserLeases, stored, now, nextLeaseId>>

NextSimple ==
  \/ Deliver
  \/ Quiet /\ Tick
  \/ Quiet /\ handleCreateTask(1, "b1", 0)
  \/ Quiet /\ \E c \in Calls, k \in 1..MaxItemsArg : full_handleLease(c, "b1", k)
  \/ Quiet /\ \E c \in Calls : full_handleLease_fetch(c)
  \/ Quiet /\ \E c \in Calls : full_handleLease_update(c)
  \/ Quiet /\ \E c \in Calls, j \in RequestJobs, l \in RequestLeaseIds : full_handleHeartbeat(c, j, l)
  \/ Quiet /\ \E c \in Calls : full_handleHeartbeat_update(c)
  \/ Quiet /\ \E c \in Calls, j \in RequestJobs, l \in RequestLeaseIds : handleSubmit(c, j, l)
  \/ Storing /\ UNCHANGED dvars /\ \E c \in Calls : handleSubmit_batch(c)

SpecSimple == Init /\ [][NextSimple]_vars

\* ---- TaskQueue.handleRelease and the constructor (do-task-queue.ts) ---------
\* handleRelease: no await of D1, so the handler runs in one step
handleRelease(jobId, leaseId) ==
  /\ LET lease == leases[jobId]
     IN IF InvalidLease(lease, leaseId)
        THEN /\ reply' = Respond("release", 400, jobId, leaseId, <<>>, NoLease)
             /\ UNCHANGED <<leases, browserLeases, stored>>
        ELSE LET rel == releaseLease(leases, browserLeases, jobId)
             IN /\ leases' = rel.leases
                /\ browserLeases' = rel.browserLeases
                /\ stored' = rel.leases
                /\ reply' = Respond("release", 200, jobId, leaseId, <<>>, NoLease)
  /\ UNCHANGED <<jobs, now, nextLeaseId, calls>>

\* the browser index the constructor rebuilds from the leases it loaded
RebuildBrowserIndex(L) ==
  LET bs == {L[j].browserId : j \in {i \in Jobs : L[i] # NoLease}}
  IN [b \in bs |-> {j \in Jobs : L[j] # NoLease /\ L[j].browserId = b}]

\* the object stops and is constructed again: the requests in flight are
\* lost with their locals, the maps are loaded from the stored snapshot
Restart ==
  /\ \A j \in Jobs : jobs[j] # NoRow => jobs[j].attempts < MaxAttempts
  /\ leases' = stored
  /\ browserLeases' = RebuildBrowserIndex(stored)
  /\ calls' = [c \in Calls |->
                 IF calls[c].kind \in {"lease", "heartbeat"} THEN NoCall
                 ELSE calls[c]]
  /\ UNCHANGED <<jobs, stored, now, nextLeaseId, reply>>

\* the main deployment with /release requests reaching the object
NextRelease ==
  \/ Next
  \/ Quiet /\ \E j \in RequestJobs, l \in RequestLeaseIds : handleRelease(j, l)

SpecRelease == Init /\ [][NextRelease]_vars

\* the main deployment with restarts of the object
NextRestart ==
  \/ Next
  \/ Quiet /\ Restart

SpecRestart == Init /\ [][NextRestart]_vars

\* ---- a holder that goes silent ------------------------------------------
\* the simple deployment with no heartbeat and no submit: jobs are created,
\* pollers keep issuing lease calls and time passes
PollSimple ==
  \/ Quiet /\ \E c \in Calls, k \in 1..MaxItemsArg : full_handleLease(c, "b1", k)
  \/ Quiet /\ \E c \in Calls : full_handleLease_fetch(c)
  \/ Quiet /\ \E c \in Calls : full_handleLease_update(c)

NextSimpleSilent ==
  \/ Deliver
  \/ Quiet /\ Tick
  \/ Quiet /\ handleCreateTask(1, "b1", 0)
  \/ PollSimple

SpecSimpleSilent ==
  /\ Init
  /\ [][NextSimpleSilent]_vars
  /\ WF_vars(Deliver)
  /\ SF_vars(Quiet /\ Tick)
  /\ SF_vars(Quiet /\ \E c \in Calls, k \in 1..MaxItemsArg : full_handleLease(c, "b1", k))
  /\ SF_vars(Quiet /\ \E c \in Calls : full_handleLease_fetch(c))
  /\ SF_vars(Quiet /\ \E c \in Calls : full_handleLease_update(c))

\* ---- handleWebhookQueue and processWebhookMessage ---------------------------
\* a SELECT of the job that does not join the artifacts
SelectJobAndArtifacts_jobOnly(J, A, j) == [job |-> J[j], artifact |-> NoArtifact]

\* SELECT j.*, a.raw_r2_key, a.raw_sha256, ... FROM jobs j LEFT JOIN artifacts a
\* ON j.job_id = a.job_id WHERE j.job_id = ?
SelectJobAndArtifacts(J, A, j) == [job |-> J[j], artifact |-> A[j]]

\* payload.artifacts of a job without a raw_r2_key
NoRawHtml == [r2_key |-> <<>>, sha256 |-> <<>>]

\* buildWebhookPayload(job, phase): the columns of the row read, raw_html
\* when the row has a raw_r2_key
buildWebhookPayload(row, jobId, phase) ==
  [job_id |-> jobId, phase |-> phase,
   browser_id |-> row.job.browser_id,
   created_at |-> row.job.created_at,
   raw_html |-> IF row.artifact.raw_r2_key # <<>>
                THEN [r2_key |-> row.artifact.raw_r2_key,
                      sha256 |-> row.artifact.raw_sha256]
                ELSE NoRawHtml]

\* the consumer takes message m: the SELECT of the job, generateDeliveryId,
\* recordDeliveryAttempt, and the request is sent with its X-Delivery-Id.
\* handleWebhookQueue awaits each message of a batch before the next.
processWebhookMessage(m) ==
  /\ inflight = NoAttempt
  /\ BagIn(m, queue)
  /\ m.notBefore <= now
  /\ nextDeliveryId <= MaxRequests
  /\ LET job == jobs[m.body.job_id]
         taken == queue (-) SetToBag({m})
     IN IF job = NoRow
        THEN /\ queue' = MessageRetry(taken, m)
             /\ UNCHANGED <<callbacks, inflight, requests, nextDeliveryId>>
        ELSE /\ queue' = taken
             /\ nextDeliveryId' = nextDeliveryId + 1
             /\ callbacks' = recordDeliveryAttempt(callbacks, nextDeliveryId,
                                                   m.body.job_id, m.body.phase, 1)
             /\ inflight' = [message |-> m, deliveryId |-> nextDeliveryId,
                             jobState |-> job.state]
             /\ requests' = Append(requests,
                                   [job_id |-> m.body.job_id, phase |-> m.body.phase,
                                    deliveryId |-> nextDeliveryId,
                                    payload |->
                                      buildWebhookPayload(
                                        SelectJobAndArtifacts(jobs, artifacts,
                                                              m.body.job_id),
                                        m.body.job_id, m.body.phase),
                                    signature |->
                                      SignatureHeader(
                                        PayloadJson(m.body.job_id, m.body.phase),
                                        m.body.callback_secret_id, env),
                                    status |-> Null])
  /\ UNCHANGED <<jobs, leases, browserLeases, stored, now, nextLeaseId, calls, reply>>

\* the fetch returns or throws: the rest of processWebhookMessage and the
\* ack or retry of handleWebhookQueue.  The statements on callbacks address
\* the row of this invocation's deliveryId only.
processWebhookMessage_fetch(status) ==
  /\ inflight # NoAttempt
  /\ LET m == inflight.message
         id == inflight.deliveryId
         j == m.body.job_id
         answered == IF status = 0 THEN callbacks
                     ELSE updateDeliveryRecord(callbacks, id, status,
                            IF ResponseOk(status) THEN now ELSE Undefined,
                            IF ResponseOk(status) THEN Undefined ELSE ErrorMessage(status),
                            Undefined)
     IN IF ResponseOk(status)
        THEN /\ callbacks' = answered
             /\ jobs' = IF m.body.phase = "ingested" /\ inflight.jobState = "fetched"
                        THEN UpdateDelivered(jobs, j) ELSE jobs
             /\ queue' = MessageAck(queue, m)
        ELSE LET inc == incrementDeliveryAttempts(answered, id)
                 failed == updateDeliveryRecord(inc.db, id, Undefined, Undefined,
                                                ErrorMessage(status), inc.attempts)
                 attempts == getDeliveryAttempts(failed, id)
             IN /\ callbacks' = failed
                /\ IF attempts < maxRetries
                   THEN /\ queue' = MessageRetry(
                                      QueueSend(queue, m.body, BackoffSeconds(attempts)), m)
                        /\ jobs' = jobs
                   ELSE /\ jobs' = UpdateJobFailed(jobs, j, ErrorMessage(status))
                        /\ queue' = MessageRetry(queue, m)
  /\ inflight' = NoAttempt
  /\ requests' = [requests EXCEPT ![Len(requests)].status = status]
  /\ UNCHANGED <<leases, browserLeases, stored, now, nextLeaseId, calls, reply,
                 nextDeliveryId>>

\* the main deployment with jobs that name a callback and the consumer of
\* CALLBACKS_QUEUE; the requests of the clients come one after the other
NextDelivery ==
  \/ Deliver
  \/ Quiet /\ Tick
  \/ Quiet /\ handleCreateTaskWith(1, "b1", 0, CallbackUrl)
  \/ Quiet /\ \E c \in {1}, k \in 1..MaxItemsArg : handleLease(c, "b1", k)
  \/ Quiet /\ \E c \in {1} : cleanupExpiredLeases(c)
  \/ Quiet /\ \E c \in {1} : handleLease_loop(c)
  \/ Quiet /\ \E c \in {1} : createLease(c)
  \/ Quiet /\ \E c \in {1}, j \in RequestJobs, l \in RequestLeaseIds : handleSubmit(c, j, l)
  \/ Storing /\ \E c \in {1} : handleSubmit_batch(c)
  \/ Idle /\ \E m \in BagToSet(queue) : processWebhookMessage(m)
  \/ Idle /\ \E status \in Outcomes : processWebhookMessage_fetch(status)

SpecDelivery == Init /\ [][NextDelivery]_vars

\* the main deployment with concurrent submit calls for jobs with and without
\* a callback_url; the messages sent stay in the queue
NextSubmit ==
  \/ Deliver
  \/ Quiet /\ Tick
  \/ Quiet /\ \E u \in {Null, CallbackUrl} : handleCreateTaskWith(1, "b1", 0, u)
  \/ Quiet /\ \E c \in Calls, k \in 1..MaxItemsArg : handleLease(c, "b1", k)
  \/ Quiet /\ \E c \in Calls : cleanupExpiredLeases(c)
  \/ Quiet /\ \E c \in Calls : handleLease_loop(c)
  \/ Quiet /\ \E c \in Calls : createLease(c)
  \/ Quiet /\ \E c \in Calls, j \in RequestJobs, l \in RequestLeaseIds : handleSubmit(c, j, l)
  \/ Storing /\ \E c \in Calls : handleSubmit_batch(c)

SpecSubmit == Init /\ [][NextSubmit]_vars

\* ---- signing and verifying a payload ------------------------------------------
\* the code points of payloads and secrets: a, b, e-grave, e-acute
CodePoints == {97, 98, 232, 233}
Payloads == UNION {[1..n -> CodePoints] : n \in 1..MaxPayloadLen}
Secrets == {<<107>>, <<107, 233>>}

\* the strings that differ from str in one code point
Mutations(str) ==
  {[str EXCEPT ![i] = cp] : i \in 1..Len(str), cp \in CodePoints} \ {str}

\* the signatures a receiver may be handed for the signature sent
Presented(signature, payload) ==
  {signature,
   SubSeq(signature, Len(SignaturePrefix) + 1, Len(signature)),
   <<83>> \o Tail(signature),
   createWebhookSignature(payload, <<120>>)}

\* the worker signs payload with secret
SignPayload(payload, secret) ==
  /\ signing = NoSigning
  /\ signing' = [payload |-> payload, secret |-> secret,
                 signature |-> createWebhookSignature(payload, secret),
                 received |-> <<>>, presented |-> <<>>, valid |-> Null]
  /\ UNCHANGED <<jobs, leases, browserLeases, stored, now, nextLeaseId, calls,
                 reply, granted, dvars, env, batch, artifacts>>

\* the receiver verifies what it was handed with the shared secret
VerifyPayload(received, presented) ==
  /\ signing # NoSigning
  /\ signing.valid = Null
  /\ signing' = [signing EXCEPT
                   !.received = received, !.presented = presented,
                   !.valid = IF verifyWebhookSignature(received, presented, signing.secret)
                             THEN 1 ELSE 0]
  /\ UNCHANGED <<jobs, leases, browserLeases, stored, now, nextLeaseId, calls,
                 reply, granted, dvars, env, batch, artifacts>>

NextSignature ==
  \/ \E payload \in Payloads, secret \in Secrets : SignPayload(payload, secret)
  \/ /\ signing # NoSigning
     /\ \E received \in {signing.payload} \cup Mutations(signing.payload),
           presented \in Presented(signing.signature, signing.payload) :
          VerifyPayload(received, presented)

SpecSignature == Init /\ [][NextSignature]_vars

\* the main deployment with jobs that name a callback with or without a
\* secret, in a deployment with or without WEBHOOK_SECRET_KEY
InitSigned ==
  \E key \in {NoSecret, <<119>>} : Boot([WEBHOOK_SECRET_KEY |-> key])

NextSigned ==
  \/ Deliver
  \/ Quiet /\ Tick
  \/ Quiet /\ \E id \in {Null, TestSecretId, OtherSecretId} :
                handleCreateTaskSigned(1, "b1", 0, CallbackUrl, id)
  \/ Quiet /\ \E c \in {1}, k \in 1..MaxItemsArg : handleLease(c, "b1", k)
  \/ Quiet /\ \E c \in {1} : cleanupExpiredLeases(c)
  \/ Quiet /\ \E c \in {1} : handleLease_loop(c)
  \/ Quiet /\ \E c \in {1} : createLease(c)
  \/ Quiet /\ \E c \in {1}, j \in RequestJobs, l \in RequestLeaseIds : handleSubmit(c, j, l)
  \/ Storing /\ \E c \in {1} : handleSubmit_batch(c)
  \/ Idle /\ \E m \in BagToSet(queue) : processWebhookMessage(m)
  \/ Idle /\ \E status \in Outcomes : processWebhookMessage_fetch(status)

SpecSigned == InitSigned /\ [][NextSigned]_vars

\* ---- errors: the catch of TaskQueue.fetch, of handleSubmit, and batches -------
\* a call is suspended in the coordinator
InCoordinator(c) ==
  calls[c].kind \in {"lease", "heartbeat"} /\ calls[c].pc # "idle"

\* the awaited D1 statement of a coordinator call throws: the catch of
\* TaskQueue.fetch answers 500
TaskQueue_fetch_catch(c) ==
  /\ InCoordinator(c)
  /\ \A j \in Jobs : jobs[j] # NoRow => jobs[j].attempts < MaxAttempts
  /\ reply' = Respond(calls[c].kind, 500, calls[c].jobId, calls[c].leaseId, <<>>, NoLease)
  /\ calls' = [calls EXCEPT ![c] = NoCall]
  /\ UNCHANGED <<jobs, leases, browserLeases, stored, now, nextLeaseId>>

\* the content store or the batch of handleSubmit throws: its catch answers 500
handleSubmit_catch(c) ==
  /\ calls[c].pc = "submit"
  /\ reply' = Respond("submit", 500, calls[c].jobId, calls[c].leaseId, <<>>, NoLease)
  /\ calls' = [calls EXCEPT ![c] = NoCall]
  /\ UNCHANGED <<jobs, leases, browserLeases, stored, now, nextLeaseId>>

\* the batch is over
BatchDone == batch.idx > Len(batch.messages)

\* the batches of at most MaxBatch messages the queue may hand over
Batches ==
  LET visible == {m \in BagToSet(queue) : m.notBefore <= now}
  IN {<<m>> : m \in visible}
       \cup {ms \in visible \X visible :
               MaxBatch >= 2 /\ (ms[1] # ms[2] \/ CopiesIn(ms[1], queue) >= 2)}

\* the queue hands a batch to handleWebhookQueue
handleWebhookQueue(ms) ==
  /\ batch = NoBatch
  /\ inflight = NoAttempt
  /\ batch' = [messages |-> ms, idx |-> 1, settled |-> <<>>]
  /\ UNCHANGED <<jobs, leases, browserLeases, stored, now, nextLeaseId, calls, reply>>
  /\ UNCHANGED dvars

\* the loop of handleWebhookQueue at message idx: processWebhookMessage up
\* to its fetch, or up to the error it throws before
handleWebhookQueue_message ==
  /\ ~BatchDone
  /\ processWebhookMessage(batch.messages[batch.idx])
  /\ batch' = IF inflight' = NoAttempt THEN SettleFailed(batch) ELSE batch

\* the fetch of message idx returns or throws: ack, or the catch
handleWebhookQueue_settle(status) ==
  /\ ~BatchDone
  /\ processWebhookMessage_fetch(status)
  /\ batch' = IF ResponseOk(status) THEN Settle(batch, "ack") ELSE SettleFailed(batch)

\* the loop is over and handleWebhookQueue returns
handleWebhookQueue_return ==
  /\ batch # NoBatch
  /\ BatchDone
  /\ batch' = NoBatch
  /\ UNCHANGED <<jobs, leases, browserLeases, stored, now, nextLeaseId, calls, reply>>
  /\ UNCHANGED dvars

\* the main deployment with batches of messages and statements that throw
NextBatch ==
  \/ Deliver
  \/ Quiet /\ Tick
  \/ Quiet /\ handleCreateTaskWith(1, "b1", 0, CallbackUrl)
  \/ Quiet /\ \E c \in {1}, k \in 1..MaxItemsArg : handleLease(c, "b1", k)
  \/ Quiet /\ \E c \in {1} : cleanupExpiredLeases(c)
  \/ Quiet /\ \E c \in {1} : handleLease_loop(c)
  \/ Quiet /\ \E c \in {1} : createLease(c)
  \/ Quiet /\ \E c \in {1} : TaskQueue_fetch_catch(c)
  \/ Quiet /\ \E c \in {1}, j \in RequestJobs, l \in RequestLeaseIds : handleSubmit(c, j, l)
  \/ Storing /\ \E c \in {1} : handleSubmit_batch(c)
  \/ Quiet /\ \E c \in {1} : handleSubmit_catch(c)
  \/ Calm /\ \E ms \in Batches : handleWebhookQueue(ms)
  \/ Calm /\ handleWebhookQueue_message
  \/ Calm /\ \E status \in Outcomes : handleWebhookQueue_settle(status)
  \/ Calm /\ handleWebhookQueue_return

SpecBatch == Init /\ [][NextBatch]_vars

\* ---- handlers/index.ts handleSubmit, one await after the other -------------
\* the pages a request may carry
MaxContents == 2

\* the body of POST /submit: htmlBase64 (the page), or r2Key (an object the
\* client says it uploaded), or neither
SubmitBodies ==
  {[htmlBase64 |-> h, r2Key |-> <<>>] : h \in 1..MaxContents}
    \cup {[htmlBase64 |-> Null, r2Key |-> <<"upload", 1>>],
          [htmlBase64 |-> Null, r2Key |-> <<>>]}

\* after the validation SELECT: option A puts the page in R2, option B asks
\* R2 for the object (found or not), and a body with neither is refused
handleSubmit_content(c, body, found) ==
  /\ calls[c].pc = "submit"
  /\ IF body.htmlBase64 # Null
     THEN /\ calls' = [calls EXCEPT ![c].pc = "content",
                                    ![c].r2Key = RawKey(calls[c].jobId),
                                    ![c].contentHash = generateSHA256(body.htmlBase64)]
          /\ reply' = reply
     ELSE IF body.r2Key # <<>> /\ found
     THEN /\ calls' = [calls EXCEPT ![c].pc = "content",
                                    ![c].r2Key = body.r2Key,
                                    ![c].contentHash = <<>>]
          /\ reply' = reply
     ELSE /\ calls' = [calls EXCEPT ![c] = NoCall]
          /\ reply' = Respond("submit", 400, calls[c].jobId, calls[c].leaseId,
                              <<>>, NoLease)
  /\ UNCHANGED <<jobs, leases, browserLeases, stored, now, nextLeaseId>>

\* env.DB.batch: the UPDATE of the job and the INSERT OR REPLACE of the artifact
handleSubmit_store(c) ==
  /\ calls[c].pc = "content"
  /\ jobs' = UpdateFetched(jobs, calls[c].jobId)
  /\ artifacts' = InsertArtifact(artifacts, calls[c].jobId, calls[c].r2Key,
                                 calls[c].contentHash)
  /\ calls' = [calls EXCEPT ![c].pc = "stored"]
  /\ reply' = reply
  /\ UNCHANGED <<leases, browserLeases, stored, now, nextLeaseId>>

\* after the batch: the message is sent when the row read by the validation
\* SELECT has a callback_url, otherwise the success response
handleSubmit_enqueue(c) ==
  /\ calls[c].pc = "stored"
  /\ IF calls[c].callback_url # Null
     THEN /\ queue' = QueueSend(queue, WebhookMessage(calls[c].jobId, "ingested",
                                                      calls[c].callback_secret_id), 0)
          /\ calls' = [calls EXCEPT ![c].pc = "sent"]
          /\ reply' = reply
     ELSE /\ queue' = queue
          /\ calls' = [calls EXCEPT ![c] = NoCall]
          /\ reply' = Respond("submit", 200, calls[c].jobId, calls[c].leaseId,
                              <<>>, NoLease)
  /\ UNCHANGED <<callbacks, inflight, requests, nextDeliveryId>>
  /\ UNCHANGED <<jobs, leases, browserLeases, stored, now, nextLeaseId>>

\* after the send: the success response
handleSubmit_return(c) ==
  /\ calls[c].pc = "sent"
  /\ calls' = [calls EXCEPT ![c] = NoCall]
  /\ reply' = Respond("submit", 200, calls[c].jobId, calls[c].leaseId, <<>>, NoLease)
  /\ UNCHANGED <<jobs, leases, browserLeases, stored, now, nextLeaseId>>

\* the statement about to run throws (R2.put or R2.head, the batch, which
\* then writes nothing, or CALLBACKS_QUEUE.send) and the catch answers 500
handleSubmit_throws(c) ==
  /\ \/ calls[c].pc \in {"submit", "content"}
     \/ calls[c].pc = "stored" /\ calls[c].callback_url # Null
  /\ reply' = Respond("submit", 500, calls[c].jobId, calls[c].leaseId, <<>>, NoLease)
  /\ calls' = [calls EXCEPT ![c] = NoCall]
  /\ UNCHANGED <<jobs, leases, browserLeases, stored, now, nextLeaseId>>

\* the main deployment with the requests of POST /submit taken one await at
\* a time, concurrent with each other and with the lease calls
NextStore ==
  \/ Deliver
  \/ Quiet /\ Tick
  \/ Quiet /\ \E u \in {Null, CallbackUrl} : handleCreateTaskWith(1, "b1", 0, u)
  \/ Quiet /\ \E c \in Calls, k \in 1..MaxItemsArg : handleLease(c, "b1", k)
  \/ Quiet /\ \E c \in Calls : cleanupExpiredLeases(c)
  \/ Quiet /\ \E c \in Calls : handleLease_loop(c)
  \/ Quiet /\ \E c \in Calls : createLease(c)
  \/ Quiet /\ \E c \in Calls, j \in RequestJobs, l \in RequestLeaseIds : handleSubmit(c, j, l)
  \/ Quiet /\ \E c \in Calls, body \in SubmitBodies, found \in BOOLEAN :
                handleSubmit_content(c, body, found)
  \/ Storing /\ UNCHANGED dvars /\ \E c \in Calls : handleSubmit_store(c)
  \/ Idle /\ \E c \in Calls : handleSubmit_enqueue(c)
  \/ Quiet /\ \E c \in Calls : handleSubmit_return(c)
  \/ Quiet /\ \E c \in Calls : handleSubmit_throws(c)

SpecStore == Init /\ [][NextStore]_vars

\* ---- several pollers and several priorities ------------------------------
\* the priorities a request to create a task carries
MaxPriority == 1

Priorities == 0..MaxPriority

\* the full deployment with jobs of every priority for every browser and
\* lease calls of every browser
NextBrowsers ==
  \/ Deliver
  \/ Quiet /\ Tick
  \/ Quiet /\ \E j \in Jobs, b \in Browsers, p \in Priorities : handleCreateTask(j, b, p)
  \/ Quiet /\ \E c \in Calls, b \in Browsers, k \in 1..MaxItemsArg : handleLease(c, b, k)
  \/ Quiet /\ \E c \in Calls : cleanupExpiredLeases(c)
  \/ Quiet /\ \E c \in Calls : handleLease_loop(c)
  \/ Quiet /\ \E c \in Calls : createLease(c)

SpecBrowsers == Init /\ [][NextBrowsers]_vars

\* the second deployment with jobs of every priority for every browser
NextSimpleBrowsers ==
  \/ Deliver
  \/ Quiet /\ Tick
  \/ Quiet /\ \E j \in Jobs, b \in Browsers, p \in Priorities : handleCreateTask(j, b, p)
  \/ Quiet /\ \E c \in Calls, b \in Browsers, k \in 1..MaxItemsArg : full_handleLease(c, b, k)
  \/ Quiet /\ \E c \in Calls : full_handleLease_fetch(c)
  \/ Quiet /\ \E c \in Calls : full_handleLease_update(c)

SpecSimpleBrowsers == Init /\ [][NextSimpleBrowsers]_vars

\* the bodies of POST /submit that carry the page
PageBodies == {body \in SubmitBodies : body.htmlBase64 # Null}

\* the main deployment with submit calls that carry different pages for a job
\* with a callback, and the consumer of CALLBACKS_QUEUE; the requests of the
\* clients come one after the other
NextPayload ==
  \/ Deliver
  \/ Quiet /\ Tick
  \/ Quiet /\ handleCreateTaskWith(1, "b1", 0, CallbackUrl)
  \/ Quiet /\ \E c \in {1} : handleLease(c, "b1", 1)
  \/ Quiet /\ \E c \in {1} : cleanupExpiredLeases(c)
  \/ Quiet /\ \E c \in {1} : handleLease_loop(c)
  \/ Quiet /\ \E c \in {1} : createLease(c)
  \/ Quiet /\ \E c \in {1}, j \in RequestJobs, l \in RequestLeaseIds : handleSubmit(c, j, l)
  \/ Quiet /\ \E c \in {1}, body \in PageBodies : handleSubmit_content(c, body, TRUE)
  \/ Storing /\ UNCHANGED dvars /\ \E c \in {1} : handleSubmit_store(c)
  \/ Idle /\ \E c \in {1} : handleSubmit_enqueue(c)
  \/ Quiet /\ \E c \in {1} : handleSubmit_return(c)
  \/ Idle /\ \E m \in BagToSet(queue) : processWebhookMessage(m)
  \/ Idle /\ \E status \in Outcomes : processWebhookMessage_fetch(status)

SpecPayload == Init /\ [][NextPayload]_vars

\* the main deployment with jobs and lease calls of every browser, one lease
\* call at a time, /release requests and restarts of the object
NextIndex ==
  \/ Deliver
  \/ Quiet /\ Tick
  \/ Quiet /\ \E j \in Jobs, b \in Browsers : handleCreateTask(j, b, 0)
  \/ Quiet /\ \E c \in {1}, b \in Browsers, k \in 1..MaxItemsArg : handleLease(c, b, k)
  \/ Quiet /\ \E c \in {1} : cleanupExpiredLeases(c)
  \/ Quiet /\ \E c \in {1} : handleLease_loop(c)
  \/ Quiet /\ \E c \in {1} : createLease(c)
  \/ Quiet /\ \E j \in RequestJobs, l \in RequestLeaseIds : handleRelease(j, l)
  \/ Quiet /\ Restart

SpecIndex == Init /\ [][NextIndex]_vars

\* ==== properties ===========================================================
Items(r) == {r.items[i] : i \in 1..Len(r.items)}

\* a response produced by the step, by a handler that ran without suspending
OneStepReply(kind) ==
  reply = NoReply /\ reply'.kind = kind /\ calls' = calls

\* call c enters the extending path of a heartbeat handler in the step
EntersHeartbeat(c) ==
  /\ calls[c].pc = "idle"
  /\ calls'[c].pc \in {"heartbeat", "heartbeat.update"}

LeaseExpired(lease) == lease # NoLease /\ now > lease.leaseUntil

\* C1: a lease call never creates or overwrites the lease record of a job
\* whose current lease (another holder's, not yet expired) is in the index,
\* so at most one (browserId, leaseId) pair holds a job at any instant.
C1_NoOverwriteOfHeldLease ==
  [][\A j \in Jobs :
       (leases[j] # NoLease /\ ~LeaseExpired(leases[j]) /\ leases'[j] # NoLease)
         => leases'[j].leaseId = leases[j].leaseId]_vars

\* C2: a job is never returned as a granted item by two lease calls whose
\* grants overlap in time (two calls that raced for the same queued job):
\* of two items for one job, one lease ended before the other was created.
C2_JobGrantedToOneCall ==
  \A x, y \in granted \cup Items(reply) :
    (x.jobId = y.jobId /\ x.leaseId # y.leaseId)
      => \/ x.leaseUntil < y.leaseUntil - leaseDurationMs
         \/ y.leaseUntil < x.leaseUntil - leaseDurationMs

\* the job whose Job Store write the suspended coordinator call c awaits
AwaitedJob(c) ==
  IF calls[c].pc = "cleanupExpiredLeases"
  THEN calls[c].expiredJobs[calls[c].idx]
  ELSE IF calls[c].pc = "createLease"
  THEN calls[c].lease.jobId
  ELSE calls[c].jobId

SuspendedInCoordinator(c) ==
  calls[c].pc \in {"cleanupExpiredLeases", "createLease", "heartbeat"}

\* the step is taken by a coordinator call other than c
OtherCoordinatorStep(c) ==
  /\ [calls'[c] EXCEPT !.lease = calls[c].lease] = calls[c]
  /\ \/ \E d \in Calls \ {c} :
          /\ calls'[d] # calls[d]
          /\ {calls[d].kind, calls'[d].kind} \cap {"lease", "heartbeat"} # {}
     \/ calls' = calls /\ reply = NoReply /\ reply'.kind \in {"lease", "heartbeat"}

\* C3: coordinator calls are processed one at a time: while a call is
\* suspended at an awaited Job Store write for job J, no step of another
\* coordinator call changes the lease record or the Job Store row of J.
C3_CoordinatorCallsSerialized ==
  [][\A c \in Calls :
       (SuspendedInCoordinator(c) /\ OtherCoordinatorStep(c))
         => /\ leases'[AwaitedJob(c)] = leases[AwaitedJob(c)]
            /\ jobs'[AwaitedJob(c)] = jobs[AwaitedJob(c)]]_vars

Quiescent == \A c \in Calls : calls[c].pc = "idle"

\* C4: with no operation in progress, the index holds a lease (J, L) iff
\* the Job Store row of J is leased with lease_id = L.
C4_IndexAgreesWithJobStore ==
  Quiescent =>
    \A j \in Jobs :
      /\ leases[j] # NoLease <=> jobs[j].state = "leased"
      /\ leases[j] # NoLease => jobs[j].lease_id = leases[j].leaseId

\* C5: the lease columns of a row are set exactly when the row is leased:
\* a leased row has lease_id and lease_until non-null, any other row has
\* both null.
C5_LeaseFieldsIffLeased ==
  \A j \in Jobs :
    jobs[j] # NoRow =>
      IF jobs[j].state = "leased"
      THEN jobs[j].lease_id # Null /\ jobs[j].lease_until # Null
      ELSE jobs[j].lease_id = Null /\ jobs[j].lease_until = Null

\* C6: attempts changes only when the sweep reclaims an expired lease, and
\* then the row goes from leased to queued with the lease columns cleared
\* and attempts incremented by exactly 1, also with sweeps running
\* concurrently (rows already submitted are left to C32).
C6_SweepReclaimsOnce ==
  [][\A j \in Jobs :
       (jobs[j] # NoRow /\ jobs[j].state \in {"queued", "leased"}
          /\ jobs'[j].attempts # jobs[j].attempts)
         => /\ jobs[j].state = "leased"
            /\ jobs'[j].state = "queued"
            /\ jobs'[j].lease_id = Null
            /\ jobs'[j].lease_until = Null
            /\ jobs'[j].attempts = jobs[j].attempts + 1
            /\ LeaseExpired(leases[j])]_vars

\* C7: a heartbeat that finds its lease expired (response 410) removes the
\* lease record and reverts the Job Store row to queued with the lease
\* columns cleared and attempts incremented by 1.
C7_ExpiredHeartbeatRevertsJob ==
  [][(OneStepReply("heartbeat") /\ reply'.status = 410)
       => /\ leases'[reply'.jobId] = NoLease
          /\ jobs'[reply'.jobId].state = "queued"
          /\ jobs'[reply'.jobId].lease_id = Null
          /\ jobs'[reply'.jobId].lease_until = Null
          /\ jobs'[reply'.jobId].attempts = jobs[reply'.jobId].attempts + 1]_vars

\* C8 as stated: a heartbeat for a lease that was granted, whose deadline
\* has passed and which is no longer alive in the index is answered 410.
C8_ExpiredHeartbeatAlways410 ==
  [][\A x \in granted :
       (OneStepReply("heartbeat") /\ reply'.jobId = x.jobId
          /\ reply'.leaseId = x.leaseId /\ now > x.leaseUntil
          /\ (leases[x.jobId] = NoLease \/ LeaseExpired(leases[x.jobId])))
         => reply'.status = 410]_vars

\* C8 amended: a heartbeat issued when the lease record is expired is
\* answered 410, one issued after the record was removed is answered 400;
\* neither extends lease_until or heartbeatCount in the index, and neither
\* writes the Job Store row.
C8_ExpiredHeartbeatFails ==
  [][\A j \in Jobs :
       /\ LeaseExpired(leases[j])
            => /\ (leases'[j] # NoLease /\ leases'[j].leaseId = leases[j].leaseId)
                    => leases'[j] = leases[j]
               /\ \A c \in Calls :
                    EntersHeartbeat(c) => calls'[c].jobId # j
               /\ (OneStepReply("heartbeat") /\ reply'.jobId = j)
                    => /\ jobs' = jobs
                       /\ reply'.status =
                            IF reply'.leaseId = leases[j].leaseId THEN 410 ELSE 400
       /\ (leases[j] = NoLease /\ OneStepReply("heartbeat") /\ reply'.jobId = j)
            => reply'.status = 400 /\ jobs' = jobs /\ leases' = leases]_vars

C8_Witness ==
  /\ reply.kind = "heartbeat"
  /\ reply.status = 410
  /\ leases[reply.jobId] = NoLease
  /\ jobs[reply.jobId].lease_id = reply.leaseId

HoldsLease(j, l) == leases[j] # NoLease /\ leases[j].leaseId = l

\* C10: a heartbeat for a job without a lease record, or with a leaseId
\* other than the holder's, is answered 400 and leaves the index, the
\* durable snapshot and the Job Store unchanged; it never takes the
\* extending path.
C10_InvalidHeartbeatChangesNothing ==
  [][/\ \A c \in Calls :
          EntersHeartbeat(c)
            => HoldsLease(calls'[c].jobId, calls'[c].leaseId)
     /\ (OneStepReply("heartbeat")
           /\ ~HoldsLease(reply'.jobId, reply'.leaseId))
          => /\ reply'.status = 400
             /\ leases' = leases
             /\ browserLeases' = browserLeases
             /\ stored' = stored
             /\ jobs' = jobs]_vars

C10_Witness ==
  /\ reply.kind = "heartbeat"
  /\ reply.status = 400
  /\ leases[reply.jobId] # NoLease
  /\ leases[reply.jobId].leaseId # reply.leaseId

\* C11: a release with the holder's leaseId removes the lease record of
\* the job, leaves the other records and the Job Store as they are (the
\* row is not reverted, attempts is unchanged); a release for a job
\* without a record, or with another leaseId, is answered 400 and changes
\* nothing.
C11_ReleaseLeavesJobStore ==
  [][(reply = NoReply /\ reply'.kind = "release")
       => IF HoldsLease(reply'.jobId, reply'.leaseId)
          THEN /\ reply'.status = 200
               /\ leases'[reply'.jobId] = NoLease
               /\ \A i \in Jobs \ {reply'.jobId} : leases'[i] = leases[i]
               /\ jobs' = jobs
          ELSE /\ reply'.status = 400
               /\ leases' = leases
               /\ browserLeases' = browserLeases
               /\ stored' = stored
               /\ jobs' = jobs]_vars

C11_Witness ==
  /\ reply.kind = "release"
  /\ reply.status = 200
  /\ leases[reply.jobId] = NoLease
  /\ jobs[reply.jobId].state = "leased"
  /\ jobs[reply.jobId].lease_id = reply.leaseId
  /\ jobs[reply.jobId].attempts = 0

\* C12: when submit has answered success for job J, the lease index holds
\* no lease record of J.
C12_SubmitReleasesLease ==
  (reply.kind = "submit" /\ reply.status = 200)
    => leases[reply.jobId] = NoLease

\* C13: at the return of a lease, heartbeat or release call (whatever its
\* outcome) with no other call in progress, the stored snapshot equals the
\* lease index.
C13_WriteThroughAtReturn ==
  (reply.kind \in {"lease", "heartbeat", "release"} /\ Quiescent)
    => stored = leases

\* C14: after a restart of the coordinator, at whatever point it stopped,
\* the index rebuilt from the stored snapshot holds a lease of job J
\* exactly when the row of J is leased with that lease_id.
C14_RestartKeepsLeases ==
  [][Restart
       => \A j \in Jobs :
            /\ leases'[j] # NoLease <=> jobs'[j].state = "leased"
            /\ leases'[j] # NoLease => jobs'[j].lease_id = leases'[j].leaseId]_vars

\* call c enters handleLease in the step, whose first statement is the sweep
EntersLease(c) == calls[c].pc = "idle" /\ calls'[c].kind = "lease"

\* call c runs the part of the sweep after one awaited revert in the step
SweepStep(c) == calls[c].pc = "cleanupExpiredLeases" /\ calls'[c] # calls[c]

\* C15: the sweep is idempotent: each job the sweep has reverted has no
\* lease record afterwards, and a sweep that starts when no lease record
\* is expired (as after a sweep, with nothing in between) changes neither
\* the lease index nor any Job Store row, so attempts is not incremented
\* again.
C15_SweepIdempotent ==
  [][\A c \in Calls :
       /\ SweepStep(c) => leases'[calls[c].expiredJobs[calls[c].idx]] = NoLease
       /\ (EntersLease(c) /\ \A j \in Jobs : ~LeaseExpired(leases[j]))
            => /\ jobs' = jobs
               /\ leases' = leases
               /\ browserLeases' = browserLeases
               /\ calls'[c].pc = "findAvailableTasks"]_vars

C15_Witness ==
  /\ jobs[1] # NoRow
  /\ jobs[1].state = "queued"
  /\ jobs[1].attempts = 1
  /\ leases[1] = NoLease
  /\ \A c \in Calls : calls[c].pc = "findAvailableTasks"

\* C16: with the holder silent and pollers issuing lease calls, a job
\* that is leased and whose lease_until has passed eventually is queued
\* again.
C16_SilentHolderReclaimed ==
  \A j \in Jobs :
    (jobs[j].state = "leased" /\ now > jobs[j].lease_until)
      ~> (jobs[j].state = "queued")

\* the requests received so far for job j and phase p
RequestsOf(j, p) ==
  {i \in 1..Len(requests) : requests[i].job_id = j /\ requests[i].phase = p}

\* C17: all delivery attempts for the same (job, phase), the first and
\* every retry, carry the same delivery_id in X-Delivery-Id
C17_RetriesReuseDeliveryId ==
  \A a, b \in 1..Len(requests) :
    (requests[a].job_id = requests[b].job_id /\ requests[a].phase = requests[b].phase)
      => requests[a].deliveryId = requests[b].deliveryId

\* C18: the table of deliveries holds at most one row per (job, phase); a
\* retry updates the existing row instead of inserting a new one
C18_OneRowPerJobPhase ==
  \A a, b \in DeliveryIds :
    (/\ callbacks[a] # NoCallback
     /\ callbacks[b] # NoCallback
     /\ callbacks[a].job_id = callbacks[b].job_id
     /\ callbacks[a].phase = callbacks[b].phase)
      => a = b

\* every request for job j, phase p was answered, and none with a 2xx
AlwaysFailed(j, p) ==
  \A i \in RequestsOf(j, p) :
    requests[i].status # Null /\ ~ResponseOk(requests[i].status)

\* C19: for an endpoint that fails every attempt the worker makes exactly
\* three attempts for the (job, phase): never a fourth, and once the third
\* has failed the job is failed with the last error in error_message and a
\* delivery row with attempts = 3
C19_ThreeAttemptsThenFailed ==
  \A j \in Jobs :
    (jobs[j] # NoRow /\ AlwaysFailed(j, "ingested"))
      => /\ Cardinality(RequestsOf(j, "ingested")) <= 3
         /\ Cardinality(RequestsOf(j, "ingested")) = 3
              => /\ jobs[j].state = "failed"
                 /\ jobs[j].error_message = ErrorMessage(requests[Len(requests)].status)
                 /\ \E d \in DeliveryIds :
                      callbacks[d] # NoCallback /\ callbacks[d].job_id = j
                        /\ callbacks[d].attempts = 3

\* the messages a step adds to the queue
Scheduled == {m \in BagToSet(queue') : CopiesIn(m, queue') > CopiesIn(m, queue)}

\* C20: after the first, second and third consecutive failed attempt the
\* next attempt is scheduled 60 s, 120 s and 240 s after that failure, and
\* after the third nothing is scheduled
C20_BackoffSchedule ==
  [][\A j \in Jobs :
       (/\ inflight # NoAttempt
        /\ inflight' = NoAttempt
        /\ inflight.message.body.job_id = j
        /\ \A i \in 1..Len(requests') :
             requests'[i].job_id = j => ~ResponseOk(requests'[i].status))
         => LET n == Cardinality({i \in 1..Len(requests') : requests'[i].job_id = j})
            IN /\ n < 3 => /\ Scheduled # {}
                           /\ \A m \in Scheduled :
                                m.notBefore = now + (2 ^ (n - 1)) * 60 * 1000
               /\ n >= 3 => Scheduled = {}]_vars

\* the messages of (job j, phase p) waiting in the queue, each copy counted
MessagesOf(Q, j, p) ==
  LET ms == {m \in BagToSet(Q) : m.body.job_id = j /\ m.body.phase = p}
      RECURSIVE Sum(_)
      Sum(S) == IF S = {} THEN 0
                ELSE LET m == CHOOSE x \in S : TRUE
                     IN CopiesIn(m, Q) + Sum(S \ {m})
  IN Sum(ms)

PendingOf(j, p) == MessagesOf(queue, j, p)

\* the attempt in flight is one of (job j, phase p)
InFlightOf(j, p) ==
  inflight # NoAttempt /\ inflight.message.body.job_id = j
    /\ inflight.message.body.phase = p

\* C21: at any time at most one delivery attempt for a (job, phase) is
\* pending or in flight
C21_OneAttemptPendingOrInFlight ==
  \A j \in Jobs :
    PendingOf(j, "ingested") + (IF InFlightOf(j, "ingested") THEN 1 ELSE 0) <= 1

\* job j reaches fetched in this step
ReachesFetched(j) ==
  jobs[j] # NoRow /\ jobs[j].state # "fetched" /\ jobs'[j].state = "fetched"

\* C22: a notification for phase ingested is enqueued exactly once for each
\* job that reaches fetched through a submission and has a callback_url,
\* never for a job without one, and a submit that does not move the job to
\* fetched (a second submit for the same lease) enqueues nothing
C22_EnqueuedOncePerSubmission ==
  [][\A j \in Jobs :
       LET sent == MessagesOf(queue', j, "ingested") - MessagesOf(queue, j, "ingested")
       IN IF ReachesFetched(j)
          THEN sent = (IF jobs[j].callback_url # Null THEN 1 ELSE 0)
          ELSE sent <= 0]_vars

\* the attempt in flight resolves in this step
AttemptResolves == inflight # NoAttempt /\ inflight' = NoAttempt

\* C23: an attempt succeeds only on a 2xx response; then delivered_at is
\* set and the job is advanced to delivered; any other status, a timeout
\* or a network error never sets delivered_at and never moves the job to
\* delivered
C23_SuccessOnly2xx ==
  [][AttemptResolves =>
       LET d == inflight.deliveryId
           j == inflight.message.body.job_id
           status == requests'[Len(requests')].status
       IN IF ResponseOk(status)
          THEN /\ callbacks'[d].delivered_at # Null
               /\ jobs'[j].state = "delivered"
          ELSE /\ callbacks'[d].delivered_at = Null
               /\ jobs'[j].state = "delivered" => jobs[j].state = "delivered"]_vars

\* the part of C23 about attempts that fail
C23_FailureNeverDelivers ==
  [][AttemptResolves =>
       LET d == inflight.deliveryId
           j == inflight.message.body.job_id
           status == requests'[Len(requests')].status
       IN ~ResponseOk(status)
            => /\ callbacks'[d].delivered_at = Null
               /\ jobs'[j].state = "delivered" => jobs[j].state = "delivered"]_vars

\* the byte arrays differ in exactly one byte
DiffersInOneByte(a, b) ==
  Len(a) = Len(b) /\ Cardinality({i \in 1..Len(a) : a[i] # b[i]}) = 1

\* C24: the signature made for payload P and secret S verifies for P and S,
\* does not verify for a payload that differs from P in a single byte, and
\* a signature that does not start with 'sha256=' is rejected
C24_SignatureRoundTrip ==
  (signing # NoSigning /\ signing.valid # Null)
    => /\ (signing.presented = signing.signature /\ signing.received = signing.payload)
            => signing.valid = 1
       /\ (/\ signing.presented = signing.signature
           /\ DiffersInOneByte(TextEncode(signing.received), TextEncode(signing.payload)))
            => signing.valid = 0
       /\ SubSeq(signing.presented, 1, 7) # <<115, 104, 97, 50, 53, 54, 61>>
            => signing.valid = 0

\* a payload changed in one byte was checked against the signature sent and
\* rejected
C24_Witness ==
  /\ signing # NoSigning
  /\ signing.valid = 0
  /\ signing.presented = signing.signature
  /\ DiffersInOneByte(TextEncode(signing.received), TextEncode(signing.payload))

\* C25: a delivery request carries the X-Signature header exactly when the
\* job specifies a secret reference
C25_SignedIffSecretReference ==
  \A i \in 1..Len(requests) :
    (requests[i].signature # <<>>)
      <=> (jobs[requests[i].job_id].callback_secret_id # Null)

\* the number of times message i of the batch was acked or retried
TimesSettled(i) ==
  Cardinality({k \in 1..Len(batch.settled) : batch.settled[k].index = i})

\* C26: a failure is captured and never escapes: a call always ends with a
\* response, and in a batch no message is settled twice, and once
\* handleWebhookQueue is over every message of the batch, those after a
\* failing one included, was settled exactly once
C26_FailuresAreCaptured ==
  /\ [](\A i \in 1..Len(batch.messages) :
          /\ TimesSettled(i) <= 1
          /\ BatchDone => TimesSettled(i) = 1)
  /\ [][\A c \in Calls :
          (calls[c] # NoCall /\ calls'[c] = NoCall) => reply' # NoReply]_vars

\* a batch of two messages is over, the first was retried after a failed
\* delivery and the second was acked
C26_Witness ==
  /\ Len(batch.messages) = 2
  /\ BatchDone
  /\ batch.settled = <<[index |-> 1, how |-> "retry"], [index |-> 2, how |-> "ack"]>>


\* C27: a job in state failed is terminal: once the state of a job is failed,
\* no step of a lease, heartbeat, sweep, submit or delivery changes it
C27_FailedIsTerminal ==
  [][\A j \in Jobs :
       (jobs[j] # NoRow /\ jobs[j].state = "failed")
         => (jobs'[j] # NoRow /\ jobs'[j].state = "failed")]_vars

\* no job is in state failed: the failure branch of processWebhookMessage
\* reads attempts = 2 from the row of its own deliveryId and never reaches
\* the UPDATE that writes it
C27_NeverFailed ==
  \A j \in Jobs : jobs[j] # NoRow => jobs[j].state # "failed"


\* the batch of the submit call c runs in this step
SubmitStores(c) ==
  calls[c].kind = "submit" /\ calls[c].pc = "content" /\ calls'[c].pc = "stored"

\* the submit call c ends with an error response in this step
SubmitFails(c) ==
  calls[c].kind = "submit" /\ calls'[c] = NoCall /\ reply'.status # 200

\* the submit call c ends with the success response in this step
SubmitSucceeds(c) ==
  calls[c].kind = "submit" /\ calls'[c] = NoCall /\ reply'.status = 200

\* a submit writes only to a row that is leased under the leaseId of the
\* request, and leaves it fetched with lease_id and lease_until cleared
C28_WritesUnderLease ==
  [][\A c \in Calls :
       SubmitStores(c) =>
         LET j == calls[c].jobId
         IN /\ SelectLeasedJob(jobs, j, calls[c].leaseId)
            /\ jobs'[j].state = "fetched"
            /\ jobs'[j].lease_id = Null
            /\ jobs'[j].lease_until = Null]_vars

\* a submit that answers with an error has written neither the job row nor
\* the artifact record
C28_ErrorWritesNothing ==
  [][\A c \in Calls : SubmitFails(c) => calls[c].pc \notin {"stored", "sent"}]_vars

\* C28: submit succeeds only if the row of jobId is leased with lease_id equal
\* to leaseId, then the job is fetched with lease_id and lease_until cleared;
\* otherwise submit answers with an error and changes neither the job row nor
\* the artifact record
C28_SubmitContract ==
  [][\A c \in Calls :
       /\ SubmitStores(c) =>
            LET j == calls[c].jobId
            IN /\ SelectLeasedJob(jobs, j, calls[c].leaseId)
               /\ jobs'[j].state = "fetched"
               /\ jobs'[j].lease_id = Null
               /\ jobs'[j].lease_until = Null
       /\ SubmitFails(c) => calls[c].pc \notin {"stored", "sent"}
       /\ SubmitSucceeds(c) => calls[c].pc \in {"stored", "sent"}]_vars


\* what does hold of submit: the step of the batch leaves the row fetched with
\* lease_id and lease_until cleared, and a request answered 400 wrote nothing
C28_StoreAndRefusal ==
  [][/\ \A c \in Calls :
          SubmitStores(c) =>
            /\ jobs'[calls[c].jobId].state = "fetched"
            /\ jobs'[calls[c].jobId].lease_id = Null
            /\ jobs'[calls[c].jobId].lease_until = Null
     /\ \A c \in Calls :
          (SubmitFails(c) /\ reply'.status = 400) => calls[c].pc \notin {"stored", "sent"}
     /\ (reply = NoReply /\ reply'.kind = "submit" /\ reply'.status = 400)
          => (jobs' = jobs /\ artifacts' = artifacts)]_vars


\* C29: every item of a lease response names a row that is leased under the
\* returned leaseId when the call returns; no item is returned whose
\* conditional queued-to-leased write did not take effect
C29_ReturnedItemsAreLeased ==
  (reply.kind = "lease" /\ reply.status = 200)
    => \A i \in 1..Len(reply.items) :
         SelectLeasedJob(jobs, reply.items[i].jobId, reply.items[i].leaseId)

\* createLease of call c resumes in this step after a conditional update that
\* changed no row
ResumesAfterLostUpdate(c) ==
  /\ calls[c].pc = "createLease"
  /\ calls[c].updateResult.meta.changes = 0
  /\ calls'[c] # calls[c]

\* the items call c has collected, or returns, after the step
ItemsAfter(c) ==
  IF calls'[c] = NoCall THEN reply'.items ELSE calls'[c].leasedTasks

\* C30: when the conditional update fails for a candidate, the lease call
\* leaves no lease record of its own for it in the index, does not report it,
\* reports no error, and goes on with the next candidate
C30_LostUpdateIsRolledBack ==
  [][\A c \in Calls :
       ResumesAfterLostUpdate(c) =>
         LET lease == calls[c].lease
         IN /\ leases'[lease.jobId].leaseId # lease.leaseId
            /\ \A i \in 1..Len(ItemsAfter(c)) :
                 ItemsAfter(c)[i].leaseId # lease.leaseId
            /\ calls'[c] = NoCall => reply'.status = 200]_vars


\* what does hold after a lost update: the call reports no error and either
\* goes on with the next candidate or returns
C30_NoErrorReported ==
  [][\A c \in Calls :
       ResumesAfterLostUpdate(c) =>
         IF calls'[c] = NoCall THEN reply'.status = 200
         ELSE calls'[c].pc = "createLease" /\ calls'[c].idx = calls[c].idx + 1]_vars


\* the row of job j is no longer held under leaseId: it was reverted to
\* queued, or leased again under another lease_id
Reclaimed(j, leaseId) ==
  /\ jobs[j] # NoRow
  /\ \/ jobs[j].state = "queued"
     \/ jobs[j].state = "leased" /\ jobs[j].lease_id # leaseId

\* C31: a submit that carries the leaseId of a lease reclaimed since, also
\* between the validation read and the update of the submit, changes neither
\* the row of the job nor its artifact
C31_StaleSubmitWritesNothing ==
  [][\A c \in Calls :
       (SubmitStores(c) /\ Reclaimed(calls[c].jobId, calls[c].leaseId))
         => /\ jobs'[calls[c].jobId] = jobs[calls[c].jobId]
            /\ artifacts'[calls[c].jobId] = artifacts[calls[c].jobId]]_vars


\* the row of job j has been submitted
Submitted(j) ==
  jobs[j] # NoRow /\ jobs[j].state \in {"fetched", "delivered", "failed"}

\* C32: the expiry sweep changes only jobs still leased: no step reverts a
\* job that was submitted (fetched, delivered or failed) to queued or
\* increments its attempts
C32_SweepSparesSubmittedJobs ==
  [][\A j \in Jobs :
       Submitted(j) => /\ jobs'[j].state # "queued"
                       /\ jobs'[j].attempts = jobs[j].attempts]_vars


\* the same for delivered jobs alone
C32_SweepSparesDeliveredJobs ==
  [][\A j \in Jobs :
       (jobs[j] # NoRow /\ jobs[j].state = "delivered")
         => /\ jobs'[j].state # "queued"
            /\ jobs'[j].attempts = jobs[j].attempts]_vars


\* the transitions of the task lifecycle
Lifecycle ==
  {<<"absent", "queued">>, <<"queued", "leased">>, <<"leased", "queued">>,
   <<"leased", "fetched">>, <<"fetched", "parsed">>, <<"fetched", "delivered">>,
   <<"parsed", "delivered">>}
    \cup {<<s, "failed">> : s \in {"queued", "leased", "fetched", "parsed", "delivered"}}

\* C33: the state of a job changes only along the lifecycle: create gives
\* queued, queued to leased, leased to queued or fetched, fetched to parsed
\* or delivered, any state to failed
C33_LifecycleOnly ==
  [][\A j \in Jobs :
       jobs'[j].state # jobs[j].state
         => <<jobs[j].state, jobs'[j].state>> \in Lifecycle]_vars


\* a delivery of (job j, phase p) was recorded as delivered
DeliveredOf(j, p) ==
  \E d \in DeliveryIds :
    /\ callbacks[d] # NoCallback
    /\ callbacks[d].job_id = j /\ callbacks[d].phase = p
    /\ callbacks[d].delivered_at # Null

\* the notification of (job j, phase p) is in a terminal state: delivered or
\* failed for good, and no attempt is pending or in flight any more
Ended(j, p) ==
  /\ PendingOf(j, p) = 0
  /\ ~InFlightOf(j, p)
  /\ DeliveredOf(j, p) \/ jobs[j].state = "failed"

\* C34: every enqueued (job, phase) notification ends delivered or failed for
\* good after finitely many attempts, whatever the callback endpoint answers:
\* an endpoint that fails every request does not get as many as MaxRequests
\* requests (one more than maxRetries) with the notification still not ended
C34_EveryDeliveryEnds ==
  \A j \in Jobs :
    (/\ jobs[j] # NoRow
     /\ AlwaysFailed(j, "ingested")
     /\ Cardinality(RequestsOf(j, "ingested")) >= MaxRequests)
      => Ended(j, "ingested")

\* a failed attempt never ends a notification: when an attempt fails, a
\* message of the same (job, phase) is in the queue again and the job is not
\* failed
C34_FailedAttemptRequeues ==
  [][(AttemptResolves /\ ~ResponseOk(requests'[Len(requests')].status))
       => /\ MessagesOf(queue', inflight.message.body.job_id, "ingested") > 0
          /\ jobs'[inflight.message.body.job_id].state # "failed"]_vars


\* the lease record of job j is extended in this step
Extends(j) ==
  /\ leases[j] # NoLease /\ leases'[j] # NoLease
  /\ leases'[j].leaseId = leases[j].leaseId
  /\ leases'[j] # leases[j]

\* C35: a successful heartbeat sets leaseUntil to the time of the call plus
\* the lease duration, whatever the previous leaseUntil was, increments
\* heartbeatCount by exactly 1, and writes the new leaseUntil to lease_until
\* of the row of the job
C35_HeartbeatExtendsAndMirrors ==
  [][\A j \in Jobs :
       Extends(j)
         => /\ leases'[j].leaseUntil = getCurrentTimestamp + leaseDurationMs
            /\ leases'[j].heartbeatCount = leases[j].heartbeatCount + 1
            /\ jobs'[j].lease_until = leases'[j].leaseUntil]_vars

\* the same for the deployment whose worker mirrors the leaseUntil the
\* coordinator returned: the extension is as above, and the step that
\* answers a heartbeat writes the returned leaseUntil to the row leased
\* under that lease
C35_SimpleHeartbeatMirrors ==
  [][/\ \A j \in Jobs :
          Extends(j)
            => /\ leases'[j].leaseUntil = getCurrentTimestamp + leaseDurationMs
               /\ leases'[j].heartbeatCount = leases[j].heartbeatCount + 1
     /\ (reply = NoReply /\ reply'.kind = "heartbeat" /\ reply'.status = 200
           /\ SelectLeasedJob(jobs, reply'.jobId, reply'.leaseId))
          => jobs'[reply'.jobId].lease_until = reply'.leaseUntil]_vars

\* a heartbeat made after the clock advanced is answered with a later
\* leaseUntil than the grant's, and the leased row carries it
C35_Witness ==
  /\ reply.kind = "heartbeat" /\ reply.status = 200
  /\ reply.heartbeatCount = 1
  /\ SelectLeasedJob(jobs, reply.jobId, reply.leaseId)
  /\ jobs[reply.jobId].lease_until = reply.leaseUntil
  /\ \E x \in granted :
       /\ x.jobId = reply.jobId /\ x.leaseId = reply.leaseId
       /\ reply.leaseUntil > x.leaseUntil


\* the sum of attempts over the rows of the jobs in S
RECURSIVE AttemptsOf(_)
AttemptsOf(S) ==
  IF S = {} THEN 0
  ELSE LET j == CHOOSE x \in S : TRUE
       IN (IF jobs[j] = NoRow THEN 0 ELSE jobs[j].attempts) + AttemptsOf(S \ {j})

\* C36: attempts changes only through lease-expiry reclamation and counts
\* the leases of the job that ended by expiry: a step changes attempts only
\* by adding 1 while the lease record of the job is expired, and no more
\* attempts are counted than leases were created
C36_AttemptsCountExpiredLeases ==
  /\ [](AttemptsOf(Jobs) <= nextLeaseId - 1)
  /\ [][\A j \in Jobs :
          (jobs[j] # NoRow /\ jobs'[j].attempts # jobs[j].attempts)
            => /\ jobs'[j].attempts = jobs[j].attempts + 1
               /\ LeaseExpired(leases[j])]_vars


\* what does hold of attempts: a step changes it only by adding 1, and only
\* in a revert to queued
C36_OnlyRevertsCount ==
  [][\A j \in Jobs :
       (jobs[j] # NoRow /\ jobs'[j].attempts # jobs[j].attempts)
         => /\ jobs'[j].attempts = jobs[j].attempts + 1
            /\ jobs'[j].state = "queued"
            /\ LeaseExpired(leases[j])]_vars

\* ---- C37 -------------------------------------------------------------------
\* call c receives the rows of its SELECT of candidates in this step
Selects(c) ==
  /\ calls[c].pc \in {"idle", "cleanupExpiredLeases"}
  /\ calls'[c].pc \in {"findAvailableTasks", "taskQueue.fetch"}

\* the jobs of the sequence s
JobsOf(s) == {s[i] : i \in 1..Len(s)}

\* the sequence s keeps the order of the sequence t and takes its elements
\* from it
KeepsOrder(s, t) ==
  /\ JobsOf(s) \subseteq JobsOf(t)
  /\ \A i, k \in 1..Len(s) : i < k =>
       \E m, n \in 1..Len(t) : m < n /\ t[m] = s[i] /\ t[n] = s[k]

\* C37: a lease call of browser B takes its candidates from B's queued jobs in
\* the order of priority descending, then created_at ascending: every
\* candidate is a queued job of B, no candidate stands behind one that the
\* order puts after it, no queued job of B left out of the candidates is put
\* by the order before a candidate, and some candidate is taken whenever B
\* has a queued job; the items the call returns are candidates, in the order
\* of the candidates
C37_GrantsInPriorityOrder ==
  [][\A c \in Calls :
       /\ Selects(c) =>
            LET t == calls'[c].availableTasks
                B == calls'[c].browserId
                Q == {j \in Jobs : /\ jobs[j] # NoRow
                                   /\ jobs[j].browser_id = B
                                   /\ jobs[j].state = "queued"}
            IN /\ JobsOf(t) \subseteq Q
               /\ Q # {} => t # <<>>
               /\ \A i, k \in 1..Len(t) :
                    i < k => /\ t[i] # t[k]
                             /\ ~OrderedBefore(jobs, t[k], t[i])
               /\ \A j \in Q \ JobsOf(t) :
                    \A i \in 1..Len(t) : ~OrderedBefore(jobs, j, t[i])
       /\ (calls[c].kind = "lease" /\ calls'[c] = NoCall /\ reply' # NoReply) =>
            KeepsOrder([i \in 1..Len(reply'.items) |-> reply'.items[i].jobId],
                       calls[c].availableTasks)]_vars

\* a lease call was given the job of the higher priority while an older job of
\* the same browser with a lower priority stays queued
C37_Witness ==
  /\ reply # NoReply
  /\ reply.kind = "lease"
  /\ Len(reply.items) = 1
  /\ \E j \in Jobs :
       /\ jobs[j] # NoRow
       /\ jobs[j].state = "queued"
       /\ jobs[j].browser_id = jobs[reply.items[1].jobId].browser_id
       /\ jobs[j].priority < jobs[reply.items[1].jobId].priority
       /\ jobs[j].created_at < jobs[reply.items[1].jobId].created_at

\* ---- C38 -------------------------------------------------------------------
\* C38: every lease record covers a job created for the browser the record
\* names, and every item of the response to a lease call of browser B is a
\* job whose browser_id is B
C38_LeasesStayWithTheirBrowser ==
  /\ [](\A j \in Jobs :
          leases[j] # NoLease =>
            jobs[j] # NoRow /\ jobs[j].browser_id = leases[j].browserId)
  /\ [][\A c \in Calls :
          (calls[c].kind = "lease" /\ calls'[c] = NoCall /\ reply' # NoReply) =>
            \A i \in 1..Len(reply'.items) :
              /\ jobs'[reply'.items[i].jobId] # NoRow
              /\ jobs'[reply'.items[i].jobId].browser_id = calls[c].browserId]_vars

\* a lease call is answered with a job while a queued job of another browser,
\* that the order of priority puts first, stays queued and unleased
C38_Witness ==
  /\ reply # NoReply
  /\ reply.kind = "lease"
  /\ Len(reply.items) = 1
  /\ leases[reply.items[1].jobId] # NoLease
  /\ \E j \in Jobs :
       /\ jobs[j] # NoRow
       /\ jobs[j].state = "queued"
       /\ leases[j] = NoLease
       /\ jobs[j].browser_id # leases[reply.items[1].jobId].browserId
       /\ OrderedBefore(jobs, j, reply.items[1].jobId)

\* ---- C39 -------------------------------------------------------------------
\* C39: the payload of every delivery attempt is built from the rows of the
\* job and of its artifact as they are when the attempt is made: its raw_html
\* names the r2 key and the hash the artifact row holds at that moment, and
\* nothing when there is no artifact row, and its browser_id and created_at
\* are those of the job row
C39_PayloadBuiltAtAttempt ==
  [][Len(requests') = Len(requests) + 1 =>
       LET r == requests'[Len(requests')]
           a == artifacts[r.job_id]
       IN /\ r.payload.job_id = r.job_id
          /\ r.payload.browser_id = jobs[r.job_id].browser_id
          /\ r.payload.created_at = jobs[r.job_id].created_at
          /\ r.payload.raw_html.r2_key = a.raw_r2_key
          /\ r.payload.raw_html.sha256 =
               (IF a.raw_r2_key # <<>> THEN a.raw_sha256 ELSE <<>>)]_vars

\* a message sent with a delay after a failed attempt is being delivered with
\* the hash of a page stored after the message was sent: the submit call that
\* stored the page has not sent its own message yet
C39_Witness ==
  /\ inflight # NoAttempt
  /\ inflight.message.delaySeconds > 0
  /\ calls[1].pc = "stored"
  /\ Len(requests) > 1
  /\ requests[1].status # Null
  /\ ~ResponseOk(requests[1].status)
  /\ requests[Len(requests)].job_id = requests[1].job_id
  /\ requests[Len(requests)].payload.raw_html.sha256 = artifacts[requests[1].job_id].raw_sha256
  /\ requests[Len(requests)].payload.raw_html.sha256 # requests[1].payload.raw_html.sha256

\* ---- C40 -------------------------------------------------------------------
\* C40: a job is in the set the browser index keeps for browser b exactly
\* when the lease index holds a lease of that job whose browserId is b, and
\* the browser index keeps no empty set
C40_BrowserIndexMatchesLeases ==
  /\ \A b \in DOMAIN browserLeases : browserLeases[b] # {}
  /\ \A b \in Browsers, j \in Jobs :
       (b \in DOMAIN browserLeases /\ j \in browserLeases[b])
         <=> (leases[j] # NoLease /\ leases[j].browserId = b)

\* the lease of a job of one browser was released, which removed the browser
\* from the index, while the other browser keeps its lease
C40_Witness ==
  /\ reply # NoReply
  /\ reply.kind = "release"
  /\ reply.status = 200
  /\ leases[reply.jobId] = NoLease
  /\ \E b \in Browsers :
       /\ jobs[reply.jobId].browser_id = b
       /\ b \notin DOMAIN browserLeases
       /\ DOMAIN browserLeases = Browsers \ {b}

\* the object was constructed again from a stored snapshot that lacks a lease
\* granted since: the index rebuilt names one browser, the rows of both
\* browsers are leased
C40_RebuiltWitness ==
  /\ leases = stored
  /\ Cardinality(DOMAIN browserLeases) = 1
  /\ \A j \in Jobs : jobs[j] # NoRow /\ jobs[j].state = "leased"
  /\ jobs[1].browser_id # jobs[2].browser_id

====
